---------------------------- MODULE Spec2Model ----------------------------
(***************************************************************************)
(* Blueprint Trader AI: the simulation and risk-gating engine.             *)
(*                                                                         *)
(*   SpecTrade      one simulated trade replayed bar by bar through        *)
(*                  _maybe_exit_trade (backtest.py)                        *)
(*   SpecRisk       the RiskManager (risk_manager.py) under any sequence   *)
(*                  of calls of its public methods                         *)
(*   SpecChallenge  simulate_challenge_phase (backtest.py) and             *)
(*                  simulate_challenge_for_month (challenge_simulator.py)  *)
(*                  run trade by trade over a list of closed trades        *)
(*   SpecLive       the autoscan loop of main.py activating trades         *)
(*                  through the RiskManager, with the /cleartrades command *)
(*   SpecReplay     two replays of run_backtest (backtest.py) over feeds   *)
(*                  that differ in one candle                              *)
(*   SpecBacktest   one replay of run_backtest, the strategy answering     *)
(*                  with candidates of every kind                          *)
(*                                                                         *)
(* Prices are integer ticks, money is whole dollars, percentages are basis *)
(* points (1/10000) and R-multiples are exact rationals [num, den].        *)
(***************************************************************************)
EXTENDS Integers, Sequences, FiniteSets, TLC

VARIABLES
    trade,      \* the open trade dict of run_backtest (open_trade), mutated in place
    closed,     \* what _maybe_exit_trade returned for the last bar
    bar,        \* the bar last handed to _maybe_exit_trade
    rm,         \* the RiskManager instance (RISK_MANAGER)
    clock,      \* the wall clock, datetime.now(timezone.utc), in minutes
    trades,     \* the closed trades handed to the challenge simulators, or
                \* what run_backtest yields for each asset of a month's run
    ph,         \* simulate_challenge_phase: its locals, then its result
    phase1_sim, \* what an earlier call of simulate_challenge_phase returned
    mo,         \* simulate_challenge_for_month: its locals, then its result
    ACTIVE_TRADES,  \* main.py's tracking of active trades, by key
    autoscan,   \* the autoscan coroutine: where it stands, what it holds
    TRADE_PROGRESS, \* main.py's flags of each active trade: targets and stop hit
    feed,       \* the candles of two replays of run_backtest, and the spike
    replay      \* the locals of run_backtest in the two replays

tradeVars == <<trade, closed, bar>>
riskVars == <<rm, clock>>
chalVars == <<trades, ph, phase1_sim, mo>>
liveVars == <<ACTIVE_TRADES, autoscan>>
trackVars == <<TRADE_PROGRESS>>
replayVars == <<feed, replay>>
vars == <<trade, closed, bar, rm, clock, trades, ph, phase1_sim, mo, ACTIVE_TRADES,
          autoscan, TRADE_PROGRESS, feed, replay>>

\* What the actions of one component leave alone.
exceptTrade == <<riskVars, chalVars, liveVars, trackVars, replayVars>>
exceptRisk == <<tradeVars, chalVars, liveVars, trackVars, replayVars>>
exceptChal == <<tradeVars, riskVars, liveVars, trackVars, replayVars>>
exceptLive == <<tradeVars, chalVars, trackVars, replayVars>>
exceptReplay == <<tradeVars, riskVars, chalVars, liveVars, trackVars>>
exceptTrack == <<tradeVars, chalVars, autoscan, replayVars>>

---------------------------------------------------------------------------
(* Bounds of the model *)

MaxPrice == 4
MaxBars == 3
\* Closed trades in the list handed to the challenge simulators.
MaxTrades == 3

\* Daily candles in the period run_backtest replays.
MaxDays == 3

\* News events registered with the Risk Manager.
MaxNews == 3

\* Runs of the autoscan loop, and trade ideas pending in one run.
MaxScans == 2
MaxPending == 2

\* Closed trades run_backtest returns for one asset of a month's run.
MaxPerAsset == 2

\* Closes the Risk Manager records before a reset.
MaxClosed == 2

\* Trades closed under the admission protocol.
MaxSettled == 4

\* Trades the Risk Manager is handed on one day (the cap of the day's
\* trades_opened counter).
MaxOpened == 3

---------------------------------------------------------------------------
(* Values shared by the components *)

\* Python's None for an optional price level or an absent dict key.
None == -1

Prices == 1..MaxPrice
Levels == Prices \cup {None}

Abs(x) == IF x < 0 THEN -x ELSE x

\* An R-multiple as an exact fraction; den is the trade's risk distance (> 0).
Rat(n, d) == [num |-> n, den |-> d]
RatEq(a, b) == a.num * b.den = b.num * a.den
RatNeg(a) == a.num * a.den < 0
\* max(rr, 0.0)
RatMax0(a) == IF RatNeg(a) THEN Rat(0, 1) ELSE a

\* None where a dict or a record is expected.
NoTrade == [direction |-> "None"]
NoResult == [exit_reason |-> "None"]
NoBar == [high |-> None, low |-> None, n |-> 0]
NoCall == [op |-> "None"]

\* A component that a specification does not run stays as it is here.
TradeIdle == trade = NoTrade /\ closed = NoResult /\ bar = NoBar
RiskIdle == rm = NoCall /\ clock = 0
ChalIdle == trades = <<>> /\ ph = NoCall /\ phase1_sim = NoCall /\ mo = NoCall
LiveIdle == ACTIVE_TRADES = <<>> /\ autoscan = NoCall
TrackIdle == TRADE_PROGRESS = NoCall
ReplayIdle == feed = NoCall /\ replay = NoCall

---------------------------------------------------------------------------
(* Trade Lifecycle Simulator: _maybe_exit_trade *)

\* The dict run_backtest builds for a candidate it opens.  The keys tp1_hit
\* and trailing_sl are absent until _maybe_exit_trade sets them: absent reads
\* as FALSE / None here, the defaults of trade.get(...).
NewTrade(direction, entry, sl, tp1, tp2, tp3, d_i, idx) ==
    [direction |-> direction, entry |-> entry, sl |-> sl,
     tp1 |-> tp1, tp2 |-> tp2, tp3 |-> tp3,
     risk |-> Abs(entry - sl),
     entry_date |-> d_i, entry_index |-> idx,
     tp1_hit |-> FALSE, trailing_sl |-> None]

\* trade.get("trailing_sl", trade["sl"])
ActiveStop(t) == IF t.trailing_sl = None THEN t.sl ELSE t.trailing_sl

ClosedRecord(t, exit_date, rr, reason) ==
    [entry_date |-> t.entry_date, exit_date |-> exit_date,
     entry |-> t.entry, sl |-> t.sl,
     tp1 |-> t.tp1, tp2 |-> t.tp2, tp3 |-> t.tp3,
     direction |-> t.direction, rr |-> rr, exit_reason |-> reason]

HitTarget(direction, level, high, low) ==
    /\ level # None
    /\ IF direction = "bullish" THEN high >= level ELSE low <= level

HitStop(direction, sl, high, low) ==
    IF direction = "bullish" THEN low <= sl ELSE high >= sl

\* rr of a stop exit once TP1 was hit: (sl - entry)/risk, sign-adjusted.
TrailRR(t, sl) ==
    IF t.direction = "bullish" THEN Rat(sl - t.entry, t.risk)
                               ELSE Rat(t.entry - sl, t.risk)

TargetRRMutUnsigned(t, level) == Rat(level - t.entry, t.risk)

\* rr of a target exit: (level - entry)/risk, sign-adjusted.
TargetRR(t, level) ==
    IF t.direction = "bullish" THEN Rat(level - t.entry, t.risk)
                               ELSE Rat(t.entry - level, t.risk)

StopExitRRMutTrail(t, sl) == RatMax0(TrailRR(t, sl))

\* The rr and exit reason of a stop breach: break-even or better after TP1,
\* the full -1R before it.
StopExitRR(t, sl) == IF t.tp1_hit THEN RatMax0(TrailRR(t, sl)) ELSE Rat(-1, 1)

StopExitReasonMutSL(t) == "SL"

StopExitReason(t) == IF t.tp1_hit THEN "TP1+Trail" ELSE "SL"

\* trade["tp1_hit"] = True; trade["trailing_sl"] = entry
MarkTP1MutMoveStop(t) == [t EXCEPT !.tp1_hit = TRUE, !.trailing_sl = t.entry, !.sl = t.entry]

MarkTP1MutNoTrail(t) == [t EXCEPT !.tp1_hit = TRUE]

MarkTP1(t) == [t EXCEPT !.tp1_hit = TRUE, !.trailing_sl = t.entry]

MaybeExitTradeMutSameBarTarget(t, high, low, exit_date) ==
    LET sl == ActiveStop(t)
        hit_tp3 == HitTarget(t.direction, t.tp3, high, low)
        hit_tp2 == HitTarget(t.direction, t.tp2, high, low)
        hit_tp1 == HitTarget(t.direction, t.tp1, high, low)
        hit_sl == HitStop(t.direction, sl, high, low)
    IN  IF hit_sl
        THEN [trade |-> t,
              closed |-> ClosedRecord(t, exit_date, StopExitRR(t, sl), StopExitReason(t))]
        ELSE IF t.tp1_hit \/ hit_tp1
        THEN LET t2 == MarkTP1(t)
             IN  IF hit_tp3
                 THEN [trade |-> t2,
                       closed |-> ClosedRecord(t, exit_date, TargetRR(t, t.tp3), "TP3")]
                 ELSE IF hit_tp2
                 THEN [trade |-> t2,
                       closed |-> ClosedRecord(t, exit_date, TargetRR(t, t.tp2), "TP2")]
                 ELSE IF ~t.tp1_hit /\ HitStop(t.direction, t.entry, high, low)
                 THEN [trade |-> t2,
                       closed |-> ClosedRecord(t, exit_date, Rat(0, 1), "TP1+Trail")]
                 ELSE [trade |-> t2, closed |-> NoResult]
        ELSE [trade |-> t, closed |-> NoResult]

MaybeExitTradeMutTargetFirst(t, high, low, exit_date) ==
    LET sl == ActiveStop(t)
        hit_tp3 == HitTarget(t.direction, t.tp3, high, low)
        hit_tp2 == HitTarget(t.direction, t.tp2, high, low)
        hit_tp1 == HitTarget(t.direction, t.tp1, high, low)
        hit_sl == HitStop(t.direction, sl, high, low)
    IN  IF t.tp1_hit /\ hit_tp3
        THEN [trade |-> t,
              closed |-> ClosedRecord(t, exit_date, TargetRR(t, t.tp3), "TP3")]
        ELSE IF t.tp1_hit /\ hit_tp2
        THEN [trade |-> t,
              closed |-> ClosedRecord(t, exit_date, TargetRR(t, t.tp2), "TP2")]
        ELSE IF hit_sl
        THEN [trade |-> t,
              closed |-> ClosedRecord(t, exit_date, StopExitRR(t, sl), StopExitReason(t))]
        ELSE IF t.tp1_hit
        THEN [trade |-> t, closed |-> NoResult]
        ELSE IF hit_tp1
        THEN LET t2 == MarkTP1(t)
             IN  IF HitStop(t.direction, t.entry, high, low)
                 THEN [trade |-> t2,
                       closed |-> ClosedRecord(t, exit_date, Rat(0, 1), "TP1+Trail")]
                 ELSE [trade |-> t2, closed |-> NoResult]
        ELSE [trade |-> t, closed |-> NoResult]

\* _maybe_exit_trade(trade, high, low, exit_date): the trade dict as the call
\* leaves it and the record it returns (NoResult for None).  Both directions
\* run the same branches with the comparisons mirrored.
MaybeExitTrade(t, high, low, exit_date) ==
    LET sl == ActiveStop(t)
        hit_tp3 == HitTarget(t.direction, t.tp3, high, low)
        hit_tp2 == HitTarget(t.direction, t.tp2, high, low)
        hit_tp1 == HitTarget(t.direction, t.tp1, high, low)
        hit_sl == HitStop(t.direction, sl, high, low)
    IN  IF hit_sl
        THEN [trade |-> t,
              closed |-> ClosedRecord(t, exit_date, StopExitRR(t, sl), StopExitReason(t))]
        ELSE IF t.tp1_hit
        THEN IF hit_tp3
             THEN [trade |-> t,
                   closed |-> ClosedRecord(t, exit_date, TargetRR(t, t.tp3), "TP3")]
             ELSE IF hit_tp2
             THEN [trade |-> t,
                   closed |-> ClosedRecord(t, exit_date, TargetRR(t, t.tp2), "TP2")]
             ELSE [trade |-> t, closed |-> NoResult]
        ELSE IF hit_tp1
        THEN LET t2 == MarkTP1(t)
             IN  IF HitStop(t.direction, t.entry, high, low)
                 THEN [trade |-> t2,
                       closed |-> ClosedRecord(t, exit_date, Rat(0, 1), "TP1+Trail")]
                 ELSE [trade |-> t2, closed |-> NoResult]
        ELSE [trade |-> t, closed |-> NoResult]


---------------------------------------------------------------------------
(* Account profile: THE5ERS_10K_HIGH_STAKES (account_profiles.py) *)

ChallengePhase(target, days, perDay) ==
    [profit_target_pct |-> target, min_profitable_days |-> days,
     min_profit_per_day_pct |-> perDay]

\* Percentages in basis points: 0.05 is 500.
Profile ==
    [starting_balance |-> 10000,
     max_daily_loss_pct |-> 500,
     max_total_loss_pct |-> 1000,
     risk_per_trade_pct |-> 100,
     max_open_risk_pct |-> 300,
     max_concurrent_trades |-> 3,
     phases |-> <<ChallengePhase(800, 3, 50), ChallengePhase(500, 3, 50)>>,
     daily_loss_buffer_pct |-> 100,
     total_loss_buffer_pct |-> 100,
     friday_cutoff_hour_utc |-> 20,
     monday_cooldown_hours |-> 2,
     news_blackout_minutes |-> 2]

\* amount * pct for a percentage in basis points.
PctOf(amount, bp) == (amount * bp) \div 10000

get_safe_daily_loss_limitMutNoBuffer(p) == p.max_daily_loss_pct
get_safe_daily_loss_limit(p) == p.max_daily_loss_pct - p.daily_loss_buffer_pct
get_safe_total_loss_limitMutNoBuffer(p) == p.max_total_loss_pct
get_safe_total_loss_limit(p) == p.max_total_loss_pct - p.total_loss_buffer_pct
get_max_open_risk_usdMutDailyLimit(p) == PctOf(p.starting_balance, p.max_daily_loss_pct)
get_max_open_risk_usd(p) == PctOf(p.starting_balance, p.max_open_risk_pct)

---------------------------------------------------------------------------
(* Risk Manager (risk_manager.py) *)

\* A datetime in minutes since Monday 00:00 UTC of the first week.
At(day, hour, minute) == day * 1440 + hour * 60 + minute
DateOf(t) == t \div 1440
weekday(t) == DateOf(t) % 7
hour(t) == (t % 1440) \div 60
MinutesSinceMidnight(t) == t % 1440

\* RiskManager.__init__
NewRiskManager(p) ==
    [starting_balance |-> p.starting_balance,
     current_balance |-> p.starting_balance,
     peak_balance |-> p.starting_balance,
     open_trades |-> <<>>,
     closed_trades |-> <<>>,
     daily_pnl |-> <<>>,
     current_phase |-> 1,
     phase_start_balance |-> p.starting_balance,
     news_events |-> <<>>]

\* TradeRecord: the fields the Risk Manager reads or writes (symbol, direction,
\* prices, lot size and entry time are carried along unread).
TradeRecord(trade_id, risk_usd) ==
    [trade_id |-> trade_id, risk_usd |-> risk_usd,
     exit_datetime |-> None, exit_price |-> None, pnl_usd |-> None,
     is_open |-> TRUE]

\* DailyPnL(date=today)
NewDailyPnL == [realized_pnl_usd |-> 0, unrealized_pnl_usd |-> 0,
                trades_opened |-> 0, trades_closed |-> 0]

\* A dict with one more (or one replaced) key, and with one key removed.
Put(d, k, v) == [x \in DOMAIN d \cup {k} |-> IF x = k THEN v ELSE d[x]]
Pop(d, k) == [x \in DOMAIN d \ {k} |-> d[x]]

RECURSIVE SumOver(_, _)
SumOver(d, keys) ==
    IF keys = {} THEN 0
    ELSE LET k == CHOOSE x \in keys : TRUE
         IN  d[k].risk_usd + SumOver(d, keys \ {k})

\* get_open_risk_usd
get_open_risk_usd(r) == SumOver(r.open_trades, DOMAIN r.open_trades)

\* get_total_drawdown_usd
get_total_drawdown_usd(r) == r.starting_balance - r.current_balance

\* get_today_pnl: creates today's record when it is missing.
get_today_pnl(r, today) ==
    IF today \in DOMAIN r.daily_pnl THEN r
    ELSE [r EXCEPT !.daily_pnl = Put(r.daily_pnl, today, NewDailyPnL)]

\* The news loop of _check_trading_time: some registered event has now within
\* its blackout window, bounds included.
InNewsBlackout(p, news_events, now) ==
    \E i \in 1..Len(news_events) :
        /\ news_events[i] - p.news_blackout_minutes <= now
        /\ now <= news_events[i] + p.news_blackout_minutes

\* _check_trading_time with the Friday cutoff starting an hour late.
check_trading_timeMutAfterHour(p, r, now) ==
    IF weekday(now) = 4 /\ hour(now) > p.friday_cutoff_hour_utc
    THEN "BLOCKED_FRIDAY_CUTOFF"
    ELSE IF weekday(now) = 0 /\ MinutesSinceMidnight(now) < p.monday_cooldown_hours * 60
    THEN "BLOCKED_MONDAY_COOLDOWN"
    ELSE IF InNewsBlackout(p, r.news_events, now)
    THEN "BLOCKED_NEWS_EVENT"
    ELSE "ALLOWED"

\* _check_trading_time
check_trading_time(p, r, now) ==
    IF weekday(now) = 4 /\ hour(now) >= p.friday_cutoff_hour_utc
    THEN "BLOCKED_FRIDAY_CUTOFF"
    ELSE IF weekday(now) = 0 /\ MinutesSinceMidnight(now) < p.monday_cooldown_hours * 60
    THEN "BLOCKED_MONDAY_COOLDOWN"
    ELSE IF InNewsBlackout(p, r.news_events, now)
    THEN "BLOCKED_NEWS_EVENT"
    ELSE "ALLOWED"

\* RiskChecks with the open-risk check ahead of the concurrency check.
RiskChecksMutRiskFirst(p, r, risk_usd, today) ==
    LET new_open_risk == get_open_risk_usd(r) + risk_usd
        r1 == get_today_pnl(r, today)
        projected_daily_loss == r1.daily_pnl[today].realized_pnl_usd - new_open_risk
        safe_daily_limit == PctOf(r.starting_balance, get_safe_daily_loss_limit(p))
        projected_total_loss == get_total_drawdown_usd(r) + new_open_risk
        safe_total_limit == PctOf(r.starting_balance, get_safe_total_loss_limit(p))
    IN  IF new_open_risk > get_max_open_risk_usd(p)
        THEN [result |-> "BLOCKED_OPEN_RISK", rm |-> r]
        ELSE IF Cardinality(DOMAIN r.open_trades) >= p.max_concurrent_trades
        THEN [result |-> "BLOCKED_CONCURRENT", rm |-> r]
        ELSE IF Abs(projected_daily_loss) > safe_daily_limit
        THEN [result |-> "BLOCKED_DAILY_LOSS", rm |-> r1]
        ELSE IF projected_total_loss > safe_total_limit
        THEN [result |-> "BLOCKED_TOTAL_LOSS", rm |-> r1]
        ELSE IF \/ Abs(projected_daily_loss) * 10 > 7 * safe_daily_limit
                \/ projected_total_loss * 10 > 7 * safe_total_limit
        THEN [result |-> "WARNING_NEAR_LIMIT", rm |-> r1]
        ELSE [result |-> "ALLOWED", rm |-> r1]

\* The checks of can_add_trade after the time check, in the order of the code.
\* r already holds today's record where the code has created it.
RiskChecks(p, r, risk_usd, today) ==
    LET new_open_risk == get_open_risk_usd(r) + risk_usd
        max_open_risk == get_max_open_risk_usd(p)
        r1 == get_today_pnl(r, today)
        daily_pnl == r1.daily_pnl[today].realized_pnl_usd
        projected_daily_loss == daily_pnl - new_open_risk
        safe_daily_limit == PctOf(r.starting_balance, get_safe_daily_loss_limit(p))
        current_dd == get_total_drawdown_usd(r)
        projected_total_loss == current_dd + new_open_risk
        safe_total_limit == PctOf(r.starting_balance, get_safe_total_loss_limit(p))
    IN  IF Cardinality(DOMAIN r.open_trades) >= p.max_concurrent_trades
        THEN [result |-> "BLOCKED_CONCURRENT", rm |-> r]
        ELSE IF new_open_risk > max_open_risk
        THEN [result |-> "BLOCKED_OPEN_RISK", rm |-> r]
        ELSE IF Abs(projected_daily_loss) > safe_daily_limit
        THEN [result |-> "BLOCKED_DAILY_LOSS", rm |-> r1]
        ELSE IF projected_total_loss > safe_total_limit
        THEN [result |-> "BLOCKED_TOTAL_LOSS", rm |-> r1]
        \* daily_usage > 0.7 or total_usage > 0.7
        ELSE IF \/ Abs(projected_daily_loss) * 10 > 7 * safe_daily_limit
                \/ projected_total_loss * 10 > 7 * safe_total_limit
        THEN [result |-> "WARNING_NEAR_LIMIT", rm |-> r1]
        ELSE [result |-> "ALLOWED", rm |-> r1]

\* can_add_trade with the time check made last, after the risk checks.
can_add_tradeMutTimeLast(p, r, risk_usd, check_time, wall) ==
    LET now == IF check_time = None THEN wall ELSE check_time
        time_check == check_trading_time(p, r, now)
        risk_check == RiskChecks(p, r, risk_usd, DateOf(wall))
    IN  IF risk_check.result \notin {"ALLOWED", "WARNING_NEAR_LIMIT"}
        THEN risk_check
        ELSE IF time_check # "ALLOWED"
        THEN [result |-> time_check, rm |-> r]
        ELSE risk_check

\* can_add_trade(risk_usd, check_time) at wall-clock time wall: the verdict and
\* the manager as the call leaves it.
can_add_trade(p, r, risk_usd, check_time, wall) ==
    LET now == IF check_time = None THEN wall ELSE check_time
        time_check == check_trading_time(p, r, now)
    IN  IF time_check # "ALLOWED"
        THEN [result |-> time_check, rm |-> r]
        ELSE RiskChecks(p, r, risk_usd, DateOf(wall))

\* open_trade(trade)
open_trade(r, t, wall) ==
    LET r1 == get_today_pnl([r EXCEPT !.open_trades = Put(r.open_trades, t.trade_id, t)],
                            DateOf(wall))
    IN  [r1 EXCEPT !.daily_pnl[DateOf(wall)].trades_opened = @ + 1]

\* close_trade that looks the record up but leaves it in open_trades.
close_tradeMutNoPop(r, trade_id, exit_price, pnl_usd, exit_datetime, wall) ==
    IF trade_id \notin DOMAIN r.open_trades
    THEN [result |-> NoCall, rm |-> r]
    ELSE LET t == [r.open_trades[trade_id] EXCEPT
                      !.is_open = FALSE,
                      !.exit_price = exit_price,
                      !.exit_datetime = IF exit_datetime = None THEN wall ELSE exit_datetime,
                      !.pnl_usd = pnl_usd]
             balance == r.current_balance + pnl_usd
             r1 == [r EXCEPT !.open_trades[trade_id] = t,
                             !.closed_trades = Append(r.closed_trades, t),
                             !.current_balance = balance,
                             !.peak_balance = IF balance > @ THEN balance ELSE @]
             r2 == get_today_pnl(r1, DateOf(wall))
         IN  [result |-> t,
              rm |-> [r2 EXCEPT !.daily_pnl[DateOf(wall)].realized_pnl_usd = @ + pnl_usd,
                                !.daily_pnl[DateOf(wall)].trades_closed = @ + 1]]

\* close_trade that leaves peak_balance as it was.
close_tradeMutNoPeak(r, trade_id, exit_price, pnl_usd, exit_datetime, wall) ==
    IF trade_id \notin DOMAIN r.open_trades
    THEN [result |-> NoCall, rm |-> r]
    ELSE LET t == [r.open_trades[trade_id] EXCEPT
                      !.is_open = FALSE,
                      !.exit_price = exit_price,
                      !.exit_datetime = IF exit_datetime = None THEN wall ELSE exit_datetime,
                      !.pnl_usd = pnl_usd]
             r1 == [r EXCEPT !.open_trades = Pop(r.open_trades, trade_id),
                             !.closed_trades = Append(r.closed_trades, t),
                             !.current_balance = @ + pnl_usd]
             r2 == get_today_pnl(r1, DateOf(wall))
         IN  [result |-> t,
              rm |-> [r2 EXCEPT !.daily_pnl[DateOf(wall)].realized_pnl_usd = @ + pnl_usd,
                                !.daily_pnl[DateOf(wall)].trades_closed = @ + 1]]

\* close_trade(trade_id, exit_price, pnl_usd, exit_datetime): the closed record
\* (NoCall for None) and the manager as the call leaves it.
close_trade(r, trade_id, exit_price, pnl_usd, exit_datetime, wall) ==
    IF trade_id \notin DOMAIN r.open_trades
    THEN [result |-> NoCall, rm |-> r]
    ELSE LET t == [r.open_trades[trade_id] EXCEPT
                      !.is_open = FALSE,
                      !.exit_price = exit_price,
                      !.exit_datetime = IF exit_datetime = None THEN wall ELSE exit_datetime,
                      !.pnl_usd = pnl_usd]
             balance == r.current_balance + pnl_usd
             r1 == [r EXCEPT !.open_trades = Pop(r.open_trades, trade_id),
                             !.closed_trades = Append(r.closed_trades, t),
                             !.current_balance = balance,
                             !.peak_balance = IF balance > @ THEN balance ELSE @]
             r2 == get_today_pnl(r1, DateOf(wall))
         IN  [result |-> t,
              rm |-> [r2 EXCEPT !.daily_pnl[DateOf(wall)].realized_pnl_usd = @ + pnl_usd,
                                !.daily_pnl[DateOf(wall)].trades_closed = @ + 1]]

\* add_news_event(event_time, event_name): events of the last 24 hours are kept.
add_news_event(r, event_time, wall) ==
    [r EXCEPT !.news_events =
        SelectSeq(Append(r.news_events, event_time), LAMBDA t : t > wall - 24 * 60)]

\* reset()
reset(r) ==
    [r EXCEPT !.current_balance = r.starting_balance,
              !.peak_balance = r.starting_balance,
              !.open_trades = <<>>,
              !.closed_trades = <<>>,
              !.daily_pnl = <<>>,
              !.current_phase = 1,
              !.phase_start_balance = r.starting_balance]

---------------------------------------------------------------------------
(* Challenge phase simulator: simulate_challenge_phase (backtest.py) *)

\* R-multiples are carried in hundredths of R: rr 8.33 is 833.
\* pnl_usd = rr * risk_per_trade_usd
PnlUsd(rr, risk_per_trade_usd) == (rr * risk_per_trade_usd) \div 100

\* trade.get("exit_date", trade.get("entry_date", ""))
TradeDate(t) == IF t.exit_date # None THEN t.exit_date ELSE t.entry_date

\* A closed trade as the simulators read it: a record of run_backtest, entered
\* the day before it was closed, or a dict without the key exit_date.
ClosedTrade(exit_date, rr) ==
    [exit_date |-> exit_date, entry_date |-> exit_date - 1, rr |-> rr]
TradeNoExitDate(entry_date, rr) ==
    [exit_date |-> None, entry_date |-> entry_date, rr |-> rr]

\* The arguments run_backtest passes to simulate_challenge_phase for phase 1.
PhaseArgs(p) ==
    [account_size |-> p.starting_balance,
     risk_per_trade_pct |-> p.risk_per_trade_pct,
     phase_target_pct |-> p.phases[1].profit_target_pct,
     max_daily_loss_pct |-> p.max_daily_loss_pct,
     max_total_loss_pct |-> p.max_total_loss_pct,
     min_profitable_days |-> p.phases[1].min_profitable_days,
     min_profit_per_day_pct |-> p.phases[1].min_profit_per_day_pct]

\* sum(1 for pnl in daily_pnl.values() if pnl >= min_day_profit_usd)
CountProfitableDays(daily_pnl, min_day_profit_usd) ==
    Cardinality({d \in DOMAIN daily_pnl : daily_pnl[d] >= min_day_profit_usd})

\* The daily-loss test made after each trade:
\* day_loss < 0 and abs(day_loss) > account_size * max_daily_loss_pct.
DailyLossTestMutAtLimit(day_loss, account_size, max_daily_loss_pct) ==
    day_loss < 0 /\ Abs(day_loss) >= PctOf(account_size, max_daily_loss_pct)

DailyLossTest(day_loss, account_size, max_daily_loss_pct) ==
    day_loss < 0 /\ Abs(day_loss) > PctOf(account_size, max_daily_loss_pct)

\* total_dd > account_size * max_total_loss_pct
TotalLossTest(total_dd, account_size, max_total_loss_pct) ==
    total_dd > PctOf(account_size, max_total_loss_pct)

\* The early return of simulate_challenge_phase on an empty trade list.
PhaseNoTrades(a) ==
    [pc |-> "done", passed |-> FALSE, reason |-> "No trades",
     days_to_complete |-> 0, profitable_days |-> 0,
     daily_loss_violations |-> 0, total_loss_violations |-> 0,
     final_balance |-> a.account_size]

\* The locals starting from the balance and the buckets an earlier call left.
PhaseLocalsMutKept(a) ==
    [pc |-> "loop", i |-> 0,
     balance |-> IF phase1_sim = NoCall THEN a.account_size ELSE phase1_sim.final_balance,
     peak_balance |-> a.account_size,
     daily_pnl |-> <<>>,
     daily_loss_violations |-> 0, total_loss_violations |-> 0,
     passed |-> FALSE, days_to_complete |-> 0]

\* The locals of simulate_challenge_phase before its loop; i counts the
\* trades the loop has processed.
PhaseLocals(a) ==
    [pc |-> "loop", i |-> 0,
     balance |-> a.account_size, peak_balance |-> a.account_size,
     daily_pnl |-> <<>>,
     daily_loss_violations |-> 0, total_loss_violations |-> 0,
     passed |-> FALSE, days_to_complete |-> 0]

\* The target test taken again after the phase was marked passed.
ReachesTargetMutAgain(balance, target_balance, passed) == balance >= target_balance

\* balance >= target_balance and not passed
ReachesTarget(balance, target_balance, passed) == balance >= target_balance /\ ~passed

\* One iteration of the loop of simulate_challenge_phase.
PhaseLoopBody(s, t, a) ==
    LET trade_date == TradeDate(t)
        pnl_usd == PnlUsd(t.rr, PctOf(a.account_size, a.risk_per_trade_pct))
        target_balance == a.account_size + PctOf(a.account_size, a.phase_target_pct)
        before == IF trade_date \in DOMAIN s.daily_pnl THEN s.daily_pnl[trade_date] ELSE 0
        daily_pnl == Put(s.daily_pnl, trade_date, before + pnl_usd)
        balance == s.balance + pnl_usd
        day_loss == daily_pnl[trade_date]
        total_dd == a.account_size - balance
        reached == ReachesTarget(balance, target_balance, s.passed)
    IN  [s EXCEPT
            !.i = @ + 1,
            !.daily_pnl = daily_pnl,
            !.balance = balance,
            !.peak_balance = IF balance > @ THEN balance ELSE @,
            !.daily_loss_violations =
                IF DailyLossTest(day_loss, a.account_size, a.max_daily_loss_pct)
                THEN @ + 1 ELSE @,
            !.total_loss_violations =
                IF TotalLossTest(total_dd, a.account_size, a.max_total_loss_pct)
                THEN @ + 1 ELSE @,
            !.passed = @ \/ reached,
            !.days_to_complete =
                IF reached THEN Cardinality(DOMAIN daily_pnl) ELSE @]

\* The verdict after the loop: a reached target stands only with enough
\* profitable days and no violation.
PhaseVerdictMutNoDays(s, profitable_days, a) ==
    /\ s.passed
    /\ ~(s.daily_loss_violations > 0 \/ s.total_loss_violations > 0)

PhaseVerdict(s, profitable_days, a) ==
    /\ s.passed
    /\ ~(profitable_days < a.min_profitable_days)
    /\ ~(s.daily_loss_violations > 0 \/ s.total_loss_violations > 0)

\* The reason string, by its leading words.
PhaseReason(s, passed, profitable_days, a) ==
    IF passed THEN "Passed"
    ELSE IF s.daily_loss_violations > 0 THEN "Failed: daily loss violations"
    ELSE IF s.total_loss_violations > 0 THEN "Failed: total loss violations"
    ELSE IF profitable_days < a.min_profitable_days THEN "Failed: profitable days"
    ELSE "Did not reach target"

\* What simulate_challenge_phase returns after its loop.
PhaseResult(s, a) ==
    LET profitable_days ==
            CountProfitableDays(s.daily_pnl, PctOf(a.account_size, a.min_profit_per_day_pct))
        passed == PhaseVerdict(s, profitable_days, a)
    IN  [pc |-> "done", passed |-> passed,
         reason |-> PhaseReason(s, passed, profitable_days, a),
         days_to_complete |-> IF passed THEN s.days_to_complete
                              ELSE Cardinality(DOMAIN s.daily_pnl),
         profitable_days |-> profitable_days,
         daily_loss_violations |-> s.daily_loss_violations,
         total_loss_violations |-> s.total_loss_violations,
         final_balance |-> s.balance,
         trading_days |-> Cardinality(DOMAIN s.daily_pnl)]

---------------------------------------------------------------------------
(* Multi-asset challenge run: simulate_challenge_for_month
   (challenge_simulator.py) *)

\* all_trades.sort(key=exit date): a stable sort, equal dates keep their order.
InsertByDate(sorted, t) ==
    LET k == Cardinality({j \in 1..Len(sorted) : TradeDate(sorted[j]) <= TradeDate(t)})
    IN  SubSeq(sorted, 1, k) \o <<t>> \o SubSeq(sorted, k + 1, Len(sorted))

RECURSIVE SortByDate(_)
SortByDate(s) ==
    IF s = <<>> THEN <<>>
    ELSE InsertByDate(SortByDate(SubSeq(s, 1, Len(s) - 1)), s[Len(s)])

\* ChallengeResult as constructed: every verdict False, every counter zero.
\* Percentages are in basis points.
NewChallengeResult ==
    [phase1_passed |-> FALSE, phase2_passed |-> FALSE, both_passed |-> FALSE,
     days_to_pass |-> 0, total_profit_pct |-> 0, total_profit_usd |-> 0,
     total_trades |-> 0,
     max_daily_drawdown_pct |-> 0, max_total_drawdown_pct |-> 0,
     daily_loss_violations |-> 0, total_loss_violations |-> 0,
     trading_days |-> 0, profitable_days |-> 0, failure_reason |-> "",
     phase1_profit_pct |-> 0, phase1_days |-> 0,
     phase2_profit_pct |-> 0, phase2_days |-> 0,
     trades |-> <<>>]

\* What run_backtest(asset, period_str) does in the loop over the assets: it
\* raises, or it returns a result whose "trades" is this list (empty when the
\* asset has no data or no trade).
Raises == [raises |-> TRUE, trades |-> <<>>]
Returns(list) == [raises |-> FALSE, trades |-> list]

\* trade["asset"] = asset
WithAsset(t, asset) ==
    [exit_date |-> t.exit_date, entry_date |-> t.entry_date, rr |-> t.rr,
     asset |-> asset]

\* The locals before the loop over the assets.
AssetLocals == [pc |-> "assets", k |-> 0, all_trades |-> <<>>]

\* The loop over the assets with the try around the whole loop: the first
\* exception ends it.
AssetLoopBodyMutAbort(s, assets, results) ==
    LET asset == assets[s.k + 1]
        bt_result == results[s.k + 1]
    IN  IF bt_result.raises
        THEN [s EXCEPT !.k = Len(assets)]
        ELSE [s EXCEPT
                !.k = @ + 1,
                !.all_trades = @ \o [j \in 1..Len(bt_result.trades) |->
                                        WithAsset(bt_result.trades[j], asset)]]

\* One iteration of the loop over the assets: the asset's trades are tagged
\* and appended, and an exception skips the asset.
AssetLoopBody(s, assets, results) ==
    LET asset == assets[s.k + 1]
        bt_result == results[s.k + 1]
    IN  IF bt_result.raises
        THEN [s EXCEPT !.k = @ + 1]
        ELSE [s EXCEPT
                !.k = @ + 1,
                !.all_trades = @ \o [j \in 1..Len(bt_result.trades) |->
                                        WithAsset(bt_result.trades[j], asset)]]

\* The early return when no asset produced a trade.
MonthNoTrades ==
    [pc |-> "done",
     result |-> [NewChallengeResult EXCEPT
                    !.failure_reason = "No trades generated during this period"]]

\* The locals before the loop, over the sorted trades.
MonthLocals(all_trades, p) ==
    LET sorted == SortByDate(all_trades)
    IN  [pc |-> "loop", i |-> 0,
         all_trades |-> sorted,
         balance |-> p.starting_balance, peak_balance |-> p.starting_balance,
         phase1_start_balance |-> p.starting_balance,
         phase2_start_balance |-> None,
         daily_pnl |-> <<>>,
         current_phase |-> 1,
         phase1_complete_day |-> 0, phase2_complete_day |-> 0,
         trading_day_count |-> 0,
         result |-> [NewChallengeResult EXCEPT
                        !.total_trades = Len(sorted), !.trades = sorted]]

\* The profit of a phase measured from the starting balance of the account.
ProfitReachesMutFromStart(balance, start, target) ==
    (balance - Profile.starting_balance) * 10000 >= target * Profile.starting_balance

\* (balance - start) / start >= target, the target in basis points.
ProfitReaches(balance, start, target) == (balance - start) * 10000 >= target * start

\* (balance - start) / start * 100, in basis points.
ProfitPct(balance, start) == ((balance - start) * 10000) \div start

\* The loop without the break on the phase-2 target.
MonthLoopBodyMutNoBreak(s, t, p) ==
    LET account_size == p.starting_balance
        trade_date == TradeDate(t)
        pnl_usd == PnlUsd(t.rr, PctOf(account_size, p.risk_per_trade_pct))
        new_day == trade_date \notin DOMAIN s.daily_pnl
        before == IF new_day THEN 0 ELSE s.daily_pnl[trade_date]
        daily_pnl == Put(s.daily_pnl, trade_date, before + pnl_usd)
        trading_day_count == IF new_day THEN s.trading_day_count + 1
                             ELSE s.trading_day_count
        balance == s.balance + pnl_usd
        day_loss == daily_pnl[trade_date]
        total_dd == account_size - balance
        daily_dd_pct == IF day_loss < 0 THEN (Abs(day_loss) * 10000) \div account_size ELSE 0
        total_dd_pct == IF total_dd > 0 THEN (total_dd * 10000) \div account_size ELSE 0
        pass1 == /\ s.current_phase = 1
                 /\ ProfitReaches(balance, s.phase1_start_balance,
                                  p.phases[1].profit_target_pct)
        pass2 == /\ s.current_phase = 2
                 /\ ProfitReaches(balance, s.phase2_start_balance,
                                  p.phases[2].profit_target_pct)
        r1 == [s.result EXCEPT
                !.daily_loss_violations =
                    IF DailyLossTest(day_loss, account_size, p.max_daily_loss_pct)
                    THEN @ + 1 ELSE @,
                !.total_loss_violations =
                    IF TotalLossTest(total_dd, account_size, p.max_total_loss_pct)
                    THEN @ + 1 ELSE @,
                !.max_daily_drawdown_pct = IF daily_dd_pct > @ THEN daily_dd_pct ELSE @,
                !.max_total_drawdown_pct = IF total_dd_pct > @ THEN total_dd_pct ELSE @]
        r2 == IF pass1
              THEN [r1 EXCEPT !.phase1_passed = TRUE,
                              !.phase1_profit_pct = ProfitPct(balance, s.phase1_start_balance),
                              !.phase1_days = trading_day_count]
              ELSE IF pass2
              THEN [r1 EXCEPT !.phase2_passed = TRUE,
                              !.phase2_profit_pct = ProfitPct(balance, s.phase2_start_balance),
                              !.phase2_days = trading_day_count - s.phase1_complete_day]
              ELSE r1
    IN  [s EXCEPT
            !.pc = "loop",
            !.i = @ + 1,
            !.daily_pnl = daily_pnl,
            !.trading_day_count = trading_day_count,
            !.balance = balance,
            !.peak_balance = IF balance > @ THEN balance ELSE @,
            !.current_phase = IF pass1 THEN 2 ELSE @,
            !.phase2_start_balance = IF pass1 THEN balance ELSE @,
            !.phase1_complete_day = IF pass1 THEN trading_day_count ELSE @,
            !.phase2_complete_day = IF pass2 THEN trading_day_count ELSE @,
            !.result = r2]

\* One iteration of the loop; pc leaves "loop" at the break on the phase-2
\* target.
MonthLoopBody(s, t, p) ==
    LET account_size == p.starting_balance
        trade_date == TradeDate(t)
        pnl_usd == PnlUsd(t.rr, PctOf(account_size, p.risk_per_trade_pct))
        new_day == trade_date \notin DOMAIN s.daily_pnl
        before == IF new_day THEN 0 ELSE s.daily_pnl[trade_date]
        daily_pnl == Put(s.daily_pnl, trade_date, before + pnl_usd)
        trading_day_count == IF new_day THEN s.trading_day_count + 1
                             ELSE s.trading_day_count
        balance == s.balance + pnl_usd
        day_loss == daily_pnl[trade_date]
        total_dd == account_size - balance
        daily_dd_pct == IF day_loss < 0 THEN (Abs(day_loss) * 10000) \div account_size ELSE 0
        total_dd_pct == IF total_dd > 0 THEN (total_dd * 10000) \div account_size ELSE 0
        pass1 == /\ s.current_phase = 1
                 /\ ProfitReaches(balance, s.phase1_start_balance,
                                  p.phases[1].profit_target_pct)
        pass2 == /\ s.current_phase = 2
                 /\ ProfitReaches(balance, s.phase2_start_balance,
                                  p.phases[2].profit_target_pct)
        r1 == [s.result EXCEPT
                !.daily_loss_violations =
                    IF DailyLossTest(day_loss, account_size, p.max_daily_loss_pct)
                    THEN @ + 1 ELSE @,
                !.total_loss_violations =
                    IF TotalLossTest(total_dd, account_size, p.max_total_loss_pct)
                    THEN @ + 1 ELSE @,
                !.max_daily_drawdown_pct = IF daily_dd_pct > @ THEN daily_dd_pct ELSE @,
                !.max_total_drawdown_pct = IF total_dd_pct > @ THEN total_dd_pct ELSE @]
        r2 == IF pass1
              THEN [r1 EXCEPT !.phase1_passed = TRUE,
                              !.phase1_profit_pct = ProfitPct(balance, s.phase1_start_balance),
                              !.phase1_days = trading_day_count]
              ELSE IF pass2
              THEN [r1 EXCEPT !.phase2_passed = TRUE,
                              !.phase2_profit_pct = ProfitPct(balance, s.phase2_start_balance),
                              !.phase2_days = trading_day_count - s.phase1_complete_day]
              ELSE r1
    IN  [s EXCEPT
            !.pc = IF pass2 THEN "break" ELSE "loop",
            !.i = @ + 1,
            !.daily_pnl = daily_pnl,
            !.trading_day_count = trading_day_count,
            !.balance = balance,
            !.peak_balance = IF balance > @ THEN balance ELSE @,
            !.current_phase = IF pass1 THEN 2 ELSE @,
            !.phase2_start_balance = IF pass1 THEN balance ELSE @,
            !.phase1_complete_day = IF pass1 THEN trading_day_count ELSE @,
            !.phase2_complete_day = IF pass2 THEN trading_day_count ELSE @,
            !.result = r2]

\* The lines after the loop: totals, both_passed, then the verdicts cleared on
\* a violation and the failure reason.
MonthResult(s, p) ==
    LET account_size == p.starting_balance
        r0 == s.result
        both == r0.phase1_passed /\ r0.phase2_passed
        r1 == [r0 EXCEPT
                !.trading_days = Cardinality(DOMAIN s.daily_pnl),
                !.profitable_days =
                    CountProfitableDays(s.daily_pnl,
                        PctOf(account_size, p.phases[1].min_profit_per_day_pct)),
                !.total_profit_usd = s.balance - account_size,
                !.total_profit_pct = ProfitPct(s.balance, account_size),
                !.both_passed = both,
                !.days_to_pass = IF both THEN s.phase2_complete_day ELSE @]
        failed == [r1 EXCEPT !.phase1_passed = FALSE, !.phase2_passed = FALSE,
                             !.both_passed = FALSE]
    IN  IF r1.daily_loss_violations > 0
        THEN [failed EXCEPT !.failure_reason = "Daily loss limit breached"]
        ELSE IF r1.total_loss_violations > 0
        THEN [failed EXCEPT !.failure_reason = "Total loss limit breached"]
        ELSE IF ~r1.phase1_passed
        THEN [r1 EXCEPT !.failure_reason = "Phase 1 target not reached"]
        ELSE IF ~r1.phase2_passed
        THEN [r1 EXCEPT !.failure_reason = "Phase 2 target not reached after Phase 1"]
        ELSE r1

---------------------------------------------------------------------------
(* Live trade tracking: activate_trade, close_trade_with_pnl, clear_all_trades
   and the autoscan loop that calls them (main.py) *)

\* list(ACTIVE_TRADES.keys()) is in insertion order: ACTIVE_TRADES is kept as
\* the sequence of its keys.
Keys(active) == {active[i] : i \in DOMAIN active}
Without(active, key) == SelectSeq(active, LAMBDA k : k # key)

\* A trade idea of the scan with the sizing computed for it.
Proposal(trade_key, risk_usd) == [trade_key |-> trade_key, risk_usd |-> risk_usd]

\* Whether activate_trade hands the event loop to another coroutine between
\* rm.can_add_trade (line 121) and rm.open_trade (line 140): it is a plain
\* function without an await, so it does not.
YieldsInActivateMutAwait == TRUE

YieldsInActivate == FALSE

\* activate_trade up to the verdict of the risk check: the early return on a
\* key already active, then rm.can_add_trade(risk_usd).
ActivateVerdict(active, r, prop, wall) ==
    IF prop.trade_key \in Keys(active)
    THEN [result |-> "already active", rm |-> r]
    ELSE can_add_trade(Profile, r, prop.risk_usd, None, wall)

\* The callers' test admitting a plain ALLOWED only.
AdmitsMutAllowedOnly(result) == result = "ALLOWED"

\* check_result in (RiskCheckResult.ALLOWED, RiskCheckResult.WARNING_NEAR_LIMIT)
Admits(result) == result \in {"ALLOWED", "WARNING_NEAR_LIMIT"}

\* activate_trade from the TradeRecord to the return: the trade is recorded in
\* the Risk Manager and in ACTIVE_TRADES.
ActivateRecordTrade(active, r, prop, wall) ==
    [rm |-> open_trade(r, TradeRecord(prop.trade_key, prop.risk_usd), wall),
     active |-> IF prop.trade_key \in Keys(active) THEN active
                ELSE Append(active, prop.trade_key)]

\* activate_trade(trade, entry_price, sizing) as a whole: (success, message),
\* the message by the verdict it reports, and the state it leaves.
activate_trade(active, r, prop, wall) ==
    LET v == ActivateVerdict(active, r, prop, wall)
    IN  IF Admits(v.result)
        THEN LET rec == ActivateRecordTrade(active, v.rm, prop, wall)
             IN  [success |-> TRUE, message |-> v.result, rm |-> rec.rm, active |-> rec.active]
        ELSE [success |-> FALSE, message |-> v.result, rm |-> v.rm, active |-> active]

\* create_signal_from_scan (signal_output.py) for a scan result that carries
\* entry and stop: the risk check and the fields of the signal that depend
\* on it.
create_signal_from_scan(r, risk_usd, validate_risk, wall) ==
    LET v == IF validate_risk THEN can_add_trade(Profile, r, risk_usd, None, wall)
             ELSE [result |-> "ALLOWED", rm |-> r]
        is_valid == Admits(v.result)
    IN  [status |-> IF is_valid THEN "approved" ELSE "rejected",
         valid |-> is_valid,
         rejection_reason |-> IF is_valid THEN "" ELSE v.result,
         notes |-> IF v.result = "WARNING_NEAR_LIMIT" THEN v.result ELSE "",
         rm |-> v.rm]

\* close_trade_with_pnl that drops the key and leaves the Risk Manager alone.
close_trade_with_pnlMutUntracked(active, r, trade_key, pnl_usd, wall) ==
    IF trade_key \notin Keys(active)
    THEN [success |-> FALSE, rm |-> r, active |-> active]
    ELSE [success |-> TRUE, rm |-> r, active |-> Without(active, trade_key)]

\* close_trade_with_pnl(trade_key, exit_price, pnl_usd)
close_trade_with_pnl(active, r, trade_key, pnl_usd, wall) ==
    IF trade_key \notin Keys(active)
    THEN [success |-> FALSE, rm |-> r, active |-> active]
    ELSE [success |-> TRUE,
          rm |-> close_trade(r, trade_key, 0, pnl_usd, None, wall).rm,
          active |-> Without(active, trade_key)]

\* clear_all_trades(): every active key is closed in the Risk Manager at a
\* P&L of zero, in the order of the keys, and the tracking is emptied.
RECURSIVE CloseAll(_, _, _)
CloseAll(keys, r, wall) ==
    IF keys = <<>> THEN r
    ELSE CloseAll(Tail(keys), close_trade(r, Head(keys), 0, 0, None, wall).rm, wall)

clear_all_trades(active, r, wall) ==
    [count |-> Len(active), rm |-> CloseAll(active, r, wall), active |-> <<>>]

\* _ensure_trade_progress(trade_key): the flags of a trade newly tracked
NewProgress == [tp1 |-> FALSE, tp2 |-> FALSE, tp3 |-> FALSE, sl |-> FALSE]
ensure_trade_progress(progress, trade_key) ==
    IF trade_key \in DOMAIN progress THEN progress
    ELSE Put(progress, trade_key, NewProgress)

\* The ScanResult kept in ACTIVE_TRADES under a key, entry set at activation.
ScanResult(direction, entry, stop_loss, tp1, tp2, tp3) ==
    [direction |-> direction, entry |-> entry, stop_loss |-> stop_loss,
     tp1 |-> tp1, tp2 |-> tp2, tp3 |-> tp3]

\* price <= sl for a bullish trade, price >= sl for a bearish one
PriceHitsStop(t, price) ==
    /\ t.stop_loss # None
    /\ IF t.direction = "bullish" THEN price <= t.stop_loss ELSE price >= t.stop_loss

\* price >= level for a bullish trade, price <= level for a bearish one
PriceHitsLevel(t, level, price) ==
    /\ level # None
    /\ IF t.direction = "bullish" THEN price >= level ELSE price <= level

\* (level - entry) for a bullish trade, (entry - level) for a bearish one,
\* nothing for a level that is None.
LevelGain(t, level) ==
    IF level = None THEN 0
    ELSE IF t.direction = "bullish" THEN level - t.entry ELSE t.entry - level

\* risk_usd * total_rr, total_rr the sum of the targets' R over 3, in whole
\* dollars.
AllTargetsPnl(t, risk_usd) ==
    (risk_usd * (LevelGain(t, t.tp1) + LevelGain(t, t.tp2) + LevelGain(t, t.tp3)))
        \div (3 * Abs(t.entry - t.stop_loss))

\* One iteration of the loop of check_trade_updates, for the trade under key
\* at the live price: the flags raised, and the trade closed through
\* close_trade_with_pnl when the stop or every target is hit.
check_trade_update(active, progress, r, key, t, risk_usd, price, wall) ==
    LET p0 == ensure_trade_progress(progress, key)[key]
        p1 == [p0 EXCEPT !.sl = @ \/ PriceHitsStop(t, price)]
        p2 == IF p1.sl THEN p1
              ELSE [p1 EXCEPT !.tp1 = @ \/ PriceHitsLevel(t, t.tp1, price),
                              !.tp2 = @ \/ PriceHitsLevel(t, t.tp2, price),
                              !.tp3 = @ \/ PriceHitsLevel(t, t.tp3, price)]
        all_tps_hit == /\ t.tp1 = None \/ p2.tp1
                       /\ t.tp2 = None \/ p2.tp2
                       /\ t.tp3 = None \/ p2.tp3
        pnl_usd == IF p2.sl THEN -risk_usd ELSE AllTargetsPnl(t, risk_usd)
    IN  IF p2.sl \/ all_tps_hit
        THEN LET c == close_trade_with_pnl(active, r, key, pnl_usd, wall)
             IN  [closed |-> TRUE, pnl_usd |-> pnl_usd, rm |-> c.rm, active |-> c.active,
                  progress |-> Pop(ensure_trade_progress(progress, key), key)]
        ELSE [closed |-> FALSE, pnl_usd |-> None, rm |-> r, active |-> active,
              progress |-> Put(progress, key, p2)]

\* The autoscan coroutine between two scans.
Sleeping(scans) ==
    [pc |-> "sleep", pending_trades |-> <<>>, scans |-> scans,
     checked |-> None, message |-> None, running |-> FALSE]

---------------------------------------------------------------------------
(* Walk-forward replay: run_backtest (backtest.py) *)

\* A candle with the time _candle_to_datetime reads from it (None when it
\* cannot be parsed).  Daily candle n carries time 2n; 4-hour candles fall on
\* the even and the odd times.
Candle(time, high, low) == [time |-> time, high |-> high, low |-> low]

candle_to_datetime(c) == c.time
candle_to_date(c) == IF c.time = None THEN None ELSE c.time \div 2

\* _slice_up_to_dt returning every candle, whatever its time.
slice_up_to_dtMutAll(candles, cutoff_dt) == candles

\* _slice_up_to_dt(candles, dts, cutoff_dt)
slice_up_to_dt(candles, cutoff_dt) ==
    IF cutoff_dt = None THEN <<>>
    ELSE SelectSeq(candles, LAMBDA c : candle_to_datetime(c) # None
                                       /\ candle_to_datetime(c) <= cutoff_dt)

\* The indices of the daily candles whose date lies in the requested period.
PeriodIndices(daily, start_date, end_date) ==
    LET within == {i \in 1..Len(daily) :
                      /\ candle_to_date(daily[i]) # None
                      /\ start_date <= candle_to_date(daily[i])
                      /\ candle_to_date(daily[i]) <= end_date}
    IN  [j \in 1..Cardinality(within) |->
            CHOOSE i \in within : Cardinality({k \in within : k <= i}) = j]

\* One side of a period string, as _parse_partial_date tells them apart:
\* nothing, "now" or "today", a full date ("01 Jan 2024"), a month
\* ("Jan 2024", with its first and last day), or any other text.
EmptyText == [kind |-> "empty"]
NowText == [kind |-> "now"]
DayText(d) == [kind |-> "day", date |-> d]
MonthText(first, last) == [kind |-> "month", first |-> first, last |-> last]
OtherText == [kind |-> "text"]

\* A period string: what stands before its first "-", whether there is one,
\* and what stands after it.
PeriodString(left, dash, right) == [left |-> left, dash |-> dash, right |-> right]

\* _parse_partial_date(s, for_start), today being date.today()
parse_partial_date(s, for_start, today) ==
    CASE s.kind = "empty" -> None
      [] s.kind = "now" -> today
      [] s.kind = "day" -> s.date
      [] s.kind = "month" -> IF for_start THEN s.first ELSE s.last
      [] OTHER -> None

\* _parse_period(period_str): (start, end)
parse_period(period_str, today) ==
    LET left == period_str.left
        right == IF period_str.dash THEN period_str.right ELSE NowText
        start == parse_partial_date(left, TRUE, today)
        end == parse_partial_date(right, FALSE, today)
    IN  IF start # None /\ end # None /\ start > end
        THEN <<end, start>>
        ELSE <<start, end>>

\* The number of daily candles of the default window.
LastDailyCandles == 260

\* list(range(max(0, len(daily) - 260), len(daily))), counting from 1
last_candles(daily) ==
    LET start_idx == IF Len(daily) - LastDailyCandles > 0
                     THEN Len(daily) - LastDailyCandles ELSE 0
    IN  [j \in 1..(Len(daily) - start_idx) |-> start_idx + j]

\* The indices run_backtest replays, from the parsed period.
select_indices(daily, start_req, end_req) ==
    IF start_req # None \/ end_req # None
    THEN LET dated == {i \in 1..Len(daily) : candle_to_date(daily[i]) # None}
             last_d == IF dated = {} THEN None
                       ELSE candle_to_date(daily[CHOOSE i \in dated : \A j \in dated : j <= i])
             first_d == IF dated = {} THEN None
                        ELSE candle_to_date(daily[CHOOSE i \in dated : \A j \in dated : i <= j])
             end_date == IF end_req # None THEN end_req ELSE last_d
             start_date == IF start_req # None THEN start_req ELSE first_d
         IN  IF start_date = None \/ end_date = None
             THEN last_candles(daily)
             ELSE LET indices == PeriodIndices(daily, start_date, end_date)
                  IN  IF indices = <<>> THEN last_candles(daily) ELSE indices
    ELSE last_candles(daily)

\* The locals of run_backtest before its loop.
cooldown_bars == 0

NewReplay == [open_trade |-> NoTrade, trades |-> <<>>, last_trade_idx |-> -1,
              request |-> NoCall]

\* What the loop hands to _infer_trend and _compute_confluence_flags at bar idx.
RequestAt(s, idx) ==
    LET cutoff_dt == candle_to_datetime(s.daily[idx])
    IN  [cutoff_dt |-> cutoff_dt,
         daily_slice |-> slice_up_to_dt(s.daily, cutoff_dt),
         weekly_slice |-> slice_up_to_dt(s.weekly, cutoff_dt),
         monthly_slice |-> slice_up_to_dt(s.monthly, cutoff_dt),
         h4_slice |-> slice_up_to_dt(s.h4, cutoff_dt)]

\* The exit check of the loop on bar idx (lines 560-566).
ExitAt(st, s, idx) ==
    IF st.open_trade # NoTrade /\ idx > st.open_trade.entry_index
    THEN MaybeExitTrade(st.open_trade, s.daily[idx].high, s.daily[idx].low,
                        candle_to_date(s.daily[idx]))
    ELSE [trade |-> st.open_trade, closed |-> NoResult]

\* The iteration for bar idx comes to ask the strategy for a candidate.
AsksCandidate(st, s, idx) ==
    /\ candle_to_date(s.daily[idx]) # None
    /\ ExitAt(st, s, idx).closed = NoResult
    /\ st.open_trade = NoTrade
    /\ ~(idx - st.last_trade_idx < cooldown_bars)
    /\ Len(RequestAt(s, idx).daily_slice) >= 30
    /\ Len(RequestAt(s, idx).weekly_slice) >= 8

\* min_trade_conf = 2 if SIGNAL_MODE == "standard" else 1
min_trade_conf(SIGNAL_MODE) == IF SIGNAL_MODE = "standard" THEN 2 ELSE 1

\* The flags counted as quality factors (lines 608-612).
QualityFlags == {"location", "fib", "liquidity", "structure", "htf_bias"}

\* The status run_backtest gives a candidate whose true flags are flags
\* (lines 602-619).
Status(flags, SIGNAL_MODE) ==
    LET confluence_score == Cardinality(flags)
        has_rr == "rr" \in flags
        quality_factors == Cardinality(flags \cap QualityFlags)
    IN  IF has_rr /\ confluence_score >= min_trade_conf(SIGNAL_MODE) /\ quality_factors >= 1
        THEN "active"
        ELSE IF confluence_score >= min_trade_conf(SIGNAL_MODE) THEN "watching"
        ELSE "scan_only"

\* The risk test letting a zero risk distance through.
TradeableMutZeroRisk(cand) ==
    /\ cand.status = "active"
    /\ ~(cand.entry = None \/ cand.sl = None \/ cand.tp1 = None)
    /\ ~(Abs(cand.entry - cand.sl) < 0)

\* A candidate passes the tests of lines 621-629.
Tradeable(cand) ==
    /\ cand.status = "active"
    /\ ~(cand.entry = None \/ cand.sl = None \/ cand.tp1 = None)
    /\ ~(Abs(cand.entry - cand.sl) <= 0)

\* The iteration without the continue after a close: the bar that closed a
\* trade goes on to ask for a candidate.
ReplayBarStepMutNoContinue(st, s, idx, cand) ==
    LET d_i == candle_to_date(s.daily[idx])
        exit == ExitAt(st, s, idx)
        shut == IF exit.closed # NoResult
                THEN [st EXCEPT !.trades = Append(@, exit.closed),
                                !.open_trade = NoTrade,
                                !.last_trade_idx = idx]
                ELSE [st EXCEPT !.open_trade = exit.trade]
    IN  IF d_i = None THEN st
        ELSE IF shut.open_trade # NoTrade THEN shut
        ELSE IF ~AsksCandidate(shut, s, idx) THEN shut
        ELSE IF ~Tradeable(cand)
        THEN [shut EXCEPT !.request = RequestAt(s, idx)]
        ELSE [shut EXCEPT
                !.request = RequestAt(s, idx),
                !.open_trade = NewTrade(cand.direction, cand.entry, cand.sl,
                                        cand.tp1, cand.tp2, cand.tp3, d_i, idx)]

\* One iteration of the loop of run_backtest, cand being what the strategy
\* answers if it is asked.
ReplayBarStep(st, s, idx, cand) ==
    LET d_i == candle_to_date(s.daily[idx])
        exit == ExitAt(st, s, idx)
    IN  IF d_i = None THEN st
        ELSE IF exit.closed # NoResult
        THEN [st EXCEPT !.trades = Append(@, exit.closed),
                        !.open_trade = NoTrade,
                        !.last_trade_idx = idx]
        ELSE IF exit.trade # NoTrade
        THEN [st EXCEPT !.open_trade = exit.trade]
        ELSE IF ~AsksCandidate(st, s, idx) THEN st
        ELSE IF ~Tradeable(cand)
        THEN [st EXCEPT !.request = RequestAt(s, idx)]
        ELSE [st EXCEPT
                !.request = RequestAt(s, idx),
                !.open_trade = NewTrade(cand.direction, cand.entry, cand.sl,
                                        cand.tp1, cand.tp2, cand.tp3, d_i, idx)]

---------------------------------------------------------------------------
(* SpecTrade: one trade, opened on bar 0, checked on each later bar *)

\* The levels a candidate of the strategy carries.  run_backtest checks only
\* that entry, stop and TP1 are present and that |entry - stop| > 0, so the
\* stop may lie on either side of the entry.  The targets are take-profit
\* levels: TP1 lies on the profit side of the entry and TP2, TP3 (each may be
\* absent, absent ones last) are no nearer than the target before them.
Beyond(direction, a, b) ==
    \/ b = None
    \/ a # None /\ IF direction = "bullish" THEN b >= a ELSE b <= a

TradeGeometries ==
    {g \in [direction : {"bullish", "bearish"}, entry : Prices, sl : Prices,
            tp1 : Prices, tp2 : Levels, tp3 : Levels] :
        /\ g.entry # g.sl
        /\ IF g.direction = "bullish" THEN g.tp1 > g.entry ELSE g.tp1 < g.entry
        /\ Beyond(g.direction, g.tp1, g.tp2)
        /\ Beyond(g.direction, g.tp2, g.tp3)}

TradeInit ==
    /\ \E g \in TradeGeometries :
          trade = NewTrade(g.direction, g.entry, g.sl, g.tp1, g.tp2, g.tp3, 0, 0)
    /\ closed = NoResult
    /\ bar = NoBar
    /\ RiskIdle
    /\ ChalIdle
    /\ LiveIdle
    /\ TrackIdle
    /\ ReplayIdle

\* run_backtest, lines 557-567: the next daily bar is checked against the open
\* trade; a closed trade is appended and dropped, so no further bar reaches it.
ExitCheck ==
    /\ trade # NoTrade
    /\ closed = NoResult
    /\ bar.n < MaxBars
    /\ \E high \in Prices, low \in Prices :
          /\ low <= high
          /\ LET r == MaybeExitTrade(trade, high, low, bar.n + 1)
             IN  /\ trade' = r.trade
                 /\ closed' = r.closed
                 /\ bar' = [high |-> high, low |-> low, n |-> bar.n + 1]
    /\ UNCHANGED exceptTrade

TradeNext == ExitCheck

SpecTrade == TradeInit /\ [][TradeNext]_vars


---------------------------------------------------------------------------
(* SpecRisk: a client calling the RiskManager's methods in any order *)

TradeIds == {"EUR_USD_bullish", "GBP_USD_bearish", "XAU_USD_bullish"}

\* The risk of a trade handed to open_trade: the profile's 1%, or the whole
\* 3% open-risk cap in one trade.
OpenRiskSizes == {100}

\* The risk proposed to can_add_trade: none, 1%, 3%, and the amounts that bring
\* a projection to exactly 70% of a safe limit ($280 of $400, $630 of $900).
ProposedRisks == {0, 30, 100, 280, 300}

\* The moments the wall clock passes through: Monday at the end of the
\* cooldown, and Tuesday at the time of the news event.
Instants == {At(0, 2, 0), At(1, 10, 0)}

\* The check_time a caller may pass: none (the wall clock is used), or the
\* last minute of the Monday cooldown.
NewsTimes == {At(1, 10, 0)}
CheckTimes == {None, At(0, 1, 59)}

\* What a close realizes: the full risk lost, five times the risk won, or a
\* manual close at a loss of $900.
PnlChoices(risk_usd) == {-risk_usd, 5 * risk_usd, -900}

RiskInit ==
    /\ rm = NewRiskManager(Profile)
    /\ clock = At(0, 2, 0)
    /\ TradeIdle
    /\ ChalIdle
    /\ LiveIdle
    /\ TrackIdle
    /\ ReplayIdle

Tick ==
    /\ \E t \in Instants : t > clock /\ clock' = t
    /\ UNCHANGED <<rm, exceptRisk>>

CanAddTrade ==
    /\ \E risk_usd \in ProposedRisks, check_time \in CheckTimes :
          rm' = can_add_trade(Profile, rm, risk_usd, check_time, clock).rm
    /\ UNCHANGED <<clock, exceptRisk>>

OpenedToday ==
    IF DateOf(clock) \in DOMAIN rm.daily_pnl
    THEN rm.daily_pnl[DateOf(clock)].trades_opened ELSE 0

OpenTrade ==
    /\ OpenedToday < MaxOpened
    /\ \E trade_id \in TradeIds, risk_usd \in OpenRiskSizes :
          rm' = open_trade(rm, TradeRecord(trade_id, risk_usd), clock)
    /\ UNCHANGED <<clock, exceptRisk>>

CloseTrade ==
    /\ Len(rm.closed_trades) < MaxClosed
    /\ \E trade_id \in DOMAIN rm.open_trades :
          \E pnl_usd \in PnlChoices(rm.open_trades[trade_id].risk_usd) :
              rm' = close_trade(rm, trade_id, 0, pnl_usd, None, clock).rm
    /\ UNCHANGED <<clock, exceptRisk>>

AddNewsEvent ==
    /\ \E event_time \in NewsTimes :
          /\ \A i \in 1..Len(rm.news_events) : rm.news_events[i] # event_time
          /\ rm' = add_news_event(rm, event_time, clock)
    /\ UNCHANGED <<clock, exceptRisk>>

Reset ==
    /\ rm' = reset(rm)
    /\ UNCHANGED <<clock, exceptRisk>>

RiskNext ==
    \/ Tick
    \/ CanAddTrade
    \/ OpenTrade
    \/ CloseTrade
    \/ AddNewsEvent
    \/ Reset

SpecRisk == RiskInit /\ [][RiskNext]_vars

---------------------------------------------------------------------------
(* SpecLedger: a client reporting opened and closed trades to the           *)
(* RiskManager, the closures dated or not                                   *)

\* The exit_datetime a caller may pass to close_trade: none (the wall clock is
\* used), or Monday 12:00.
ExitTimes == {None, At(0, 12, 0)}

LedgerInit ==
    /\ rm = NewRiskManager(Profile)
    /\ clock = At(0, 2, 0)
    /\ TradeIdle
    /\ ChalIdle
    /\ LiveIdle
    /\ TrackIdle
    /\ ReplayIdle

\* close_trade on any id, open or not.
CloseTradeDated ==
    /\ Len(rm.closed_trades) < MaxClosed
    /\ \E trade_id \in TradeIds, exit_datetime \in ExitTimes :
          \E pnl_usd \in PnlChoices(IF trade_id \in DOMAIN rm.open_trades
                                    THEN rm.open_trades[trade_id].risk_usd
                                    ELSE 100) :
              rm' = close_trade(rm, trade_id, 0, pnl_usd, exit_datetime, clock).rm
    /\ UNCHANGED <<clock, exceptRisk>>

LedgerNext ==
    \/ Tick
    \/ OpenTrade
    \/ CloseTradeDated

SpecLedger == LedgerInit /\ [][LedgerNext]_vars

---------------------------------------------------------------------------
(* SpecNews: a client registering news events with the RiskManager, in any  *)
(* order and at any time, and asking for admission                          *)

\* The news events a caller registers: Monday 10:00, which on Tuesday 10:00 is
\* 24 hours old, Tuesday 10:00 and Tuesday 10:05.
NewsEventTimes == {At(0, 10, 0), At(1, 10, 0), At(1, 10, 5)}

NewsInit ==
    /\ rm = NewRiskManager(Profile)
    /\ clock = At(0, 2, 0)
    /\ TradeIdle
    /\ ChalIdle
    /\ LiveIdle
    /\ TrackIdle
    /\ ReplayIdle

RegisterNews ==
    /\ Len(rm.news_events) < MaxNews
    /\ \E event_time \in NewsEventTimes :
          rm' = add_news_event(rm, event_time, clock)
    /\ UNCHANGED <<clock, exceptRisk>>

NewsNext ==
    \/ Tick
    \/ RegisterNews
    \/ CanAddTrade

SpecNews == NewsInit /\ [][NewsNext]_vars

---------------------------------------------------------------------------
(* SpecProtocol: the admission protocol.  Every trade is handed to            *)
(* open_trade right after can_add_trade accepted its risk, as activate_trade  *)
(* does, and every close realizes a loss of at most the trade's risk.         *)

\* The risk of a proposed trade: the profile's 1%, or the 3% open-risk cap.
ProtocolRisks == {100, 300}

\* The wall clock: Monday after the cooldown, then Tuesday and Wednesday.
ProtocolInstants == {At(0, 2, 0), At(1, 10, 0), At(2, 10, 0)}

\* What a close realizes: the whole risk lost, or as much won.
ProtocolPnl(risk_usd) == {-risk_usd, risk_usd}

\* can_add_trade(risk_usd), then open_trade when the verdict admits the trade.
admit_trade(p, r, trade_id, risk_usd, wall) ==
    LET v == can_add_trade(p, r, risk_usd, None, wall)
    IN  IF Admits(v.result)
        THEN [result |-> v.result, rm |-> open_trade(v.rm, TradeRecord(trade_id, risk_usd), wall)]
        ELSE v

ProtocolInit ==
    /\ rm = NewRiskManager(Profile)
    /\ clock = At(0, 2, 0)
    /\ TradeIdle
    /\ ChalIdle
    /\ LiveIdle
    /\ TrackIdle
    /\ ReplayIdle

\* The wall clock moves on, over midnight, whatever is open.
Rollover ==
    /\ \E t \in ProtocolInstants : t > clock /\ clock' = t
    /\ UNCHANGED <<rm, exceptRisk>>

\* The trade key of the next proposal: the first symbol with no trade open.
ProtocolKeys == <<"EUR_USD_bullish", "GBP_USD_bearish", "XAU_USD_bullish">>
FreeKeys(r) == {i \in 1..Len(ProtocolKeys) : ProtocolKeys[i] \notin DOMAIN r.open_trades}
NextKey(r) == ProtocolKeys[CHOOSE i \in FreeKeys(r) : \A j \in FreeKeys(r) : i <= j]

ProposeTrade ==
    /\ FreeKeys(rm) # {}
    /\ \E risk_usd \in ProtocolRisks :
          rm' = admit_trade(Profile, rm, NextKey(rm), risk_usd, clock).rm
    /\ UNCHANGED <<clock, exceptRisk>>

SettleTrade ==
    /\ Len(rm.closed_trades) < MaxSettled
    /\ \E trade_id \in DOMAIN rm.open_trades :
          \E pnl_usd \in ProtocolPnl(rm.open_trades[trade_id].risk_usd) :
              rm' = close_trade(rm, trade_id, 0, pnl_usd, None, clock).rm
    /\ UNCHANGED <<clock, exceptRisk>>

ProtocolNext == Rollover \/ ProposeTrade \/ SettleTrade

SpecProtocol == ProtocolInit /\ [][ProtocolNext]_vars

---------------------------------------------------------------------------
(* SpecChallenge: a list of closed trades run through simulate_challenge_phase
   and then through simulate_challenge_for_month *)

\* The exit dates of the trades: three days of one month.
Days == {1, 2, 3}

\* The R-multiples of the trades, in hundredths of R.  With $100 at risk:
\* losses of $400, $300 and $250, a win of $50 (the minimum profit of a
\* profitable day) and a win of $800 (the phase-1 target).
RRs == {-400, -300, -250, 50, 800}

RECURSIVE SeqsUpTo(_, _)
SeqsUpTo(S, n) ==
    IF n = 0 THEN {<<>>}
    ELSE LET shorter == SeqsUpTo(S, n - 1)
         IN  shorter \cup {Append(s, x) : s \in {q \in shorter : Len(q) = n - 1}, x \in S}

\* The lists handed to the simulators, in any order: trades closed on each of
\* the days, and two trades that carry an entry date only.
TradeKinds ==
    {ClosedTrade(d, rr) : d \in Days, rr \in RRs}
    \cup {TradeNoExitDate(1, 50), TradeNoExitDate(2, -300)}

TradeLists == SeqsUpTo(TradeKinds, MaxTrades)

NotCalled == [pc |-> "start"]

ChalInit ==
    /\ trades \in TradeLists
    /\ ph = NotCalled
    /\ phase1_sim = NoCall
    /\ mo = NotCalled
    /\ TradeIdle
    /\ RiskIdle
    /\ LiveIdle
    /\ TrackIdle
    /\ ReplayIdle

PhaseStart ==
    /\ ph.pc = "start"
    /\ ph' = IF trades = <<>> THEN PhaseNoTrades(PhaseArgs(Profile))
             ELSE PhaseLocals(PhaseArgs(Profile))
    /\ UNCHANGED <<trades, phase1_sim, mo, exceptChal>>

PhaseTrade ==
    /\ ph.pc = "loop"
    /\ ph.i < Len(trades)
    /\ ph' = PhaseLoopBody(ph, trades[ph.i + 1], PhaseArgs(Profile))
    /\ UNCHANGED <<trades, phase1_sim, mo, exceptChal>>

PhaseFinish ==
    /\ ph.pc = "loop"
    /\ ph.i = Len(trades)
    /\ ph' = PhaseResult(ph, PhaseArgs(Profile))
    /\ UNCHANGED <<trades, phase1_sim, mo, exceptChal>>

\* The caller keeps the result and calls simulate_challenge_phase again with
\* the same list and arguments.
PhaseAgain ==
    /\ ph.pc = "done"
    /\ phase1_sim = NoCall
    /\ phase1_sim' = ph
    /\ ph' = NotCalled
    /\ UNCHANGED <<trades, mo, exceptChal>>

MonthStart ==
    /\ ph.pc = "done"
    /\ phase1_sim # NoCall
    /\ mo.pc = "start"
    /\ mo' = IF trades = <<>> THEN MonthNoTrades ELSE MonthLocals(trades, Profile)
    /\ UNCHANGED <<trades, ph, phase1_sim, exceptChal>>

MonthTrade ==
    /\ mo.pc = "loop"
    /\ mo.i < Len(mo.all_trades)
    /\ mo' = MonthLoopBody(mo, mo.all_trades[mo.i + 1], Profile)
    /\ UNCHANGED <<trades, ph, phase1_sim, exceptChal>>

MonthFinish ==
    /\ \/ mo.pc = "break"
       \/ mo.pc = "loop" /\ mo.i = Len(mo.all_trades)
    /\ mo' = [mo EXCEPT !.pc = "done", !.result = MonthResult(mo, Profile)]
    /\ UNCHANGED <<trades, ph, phase1_sim, exceptChal>>

ChalNext ==
    \/ PhaseStart
    \/ PhaseTrade
    \/ PhaseFinish
    \/ PhaseAgain
    \/ MonthStart
    \/ MonthTrade
    \/ MonthFinish

SpecChallenge == ChalInit /\ [][ChalNext]_vars

---------------------------------------------------------------------------
(* SpecTail: simulate_challenge_for_month over lists that go on after the     *)
(* trade reaching the phase-2 target                                          *)

\* Trades closed on two days: wins of $800 (the phase-1 target, and more than
\* the phase-2 target after it) and of $50, and a loss of $600, beyond the
\* daily limit in one trade.
TailKinds == {ClosedTrade(d, rr) : d \in {1, 2}, rr \in {800, 50, -600}}

TailInit ==
    /\ trades \in SeqsUpTo(TailKinds, MaxTrades)
    /\ ph = NoCall
    /\ phase1_sim = NoCall
    /\ mo = NotCalled
    /\ TradeIdle
    /\ RiskIdle
    /\ LiveIdle
    /\ TrackIdle
    /\ ReplayIdle

\* The call, up to the loop over the sorted trades.
MonthCall ==
    /\ mo.pc = "start"
    /\ mo' = IF trades = <<>> THEN MonthNoTrades ELSE MonthLocals(trades, Profile)
    /\ UNCHANGED <<trades, ph, phase1_sim, exceptChal>>

TailNext == MonthCall \/ MonthTrade \/ MonthFinish

SpecTail == TailInit /\ [][TailNext]_vars

---------------------------------------------------------------------------
(* SpecAssets: simulate_challenge_for_month from its loop over the assets,  *)
(* the backtest of any asset returning trades or raising                    *)

\* The assets of the run.
Assets == <<"EUR_USD", "GBP_USD", "XAU_USD">>

\* The trades a backtest returns: a win of 8 R on day 1 and a loss of 3 R on
\* day 2.
AssetTradeKinds == {ClosedTrade(1, 800), ClosedTrade(2, -300)}

\* What the backtest of one asset yields.
AssetResults ==
    {Raises} \cup {Returns(list) : list \in SeqsUpTo(AssetTradeKinds, MaxPerAsset)}

AssetsInit ==
    /\ trades \in [1..Len(Assets) -> AssetResults]
    /\ mo = AssetLocals
    /\ ph = NoCall
    /\ phase1_sim = NoCall
    /\ TradeIdle
    /\ RiskIdle
    /\ LiveIdle
    /\ TrackIdle
    /\ ReplayIdle

AssetBacktest ==
    /\ mo.pc = "assets"
    /\ mo.k < Len(Assets)
    /\ mo' = AssetLoopBody(mo, Assets, trades)
    /\ UNCHANGED <<trades, ph, phase1_sim, exceptChal>>

\* After the loop: the early return without trades, or the sort and the
\* locals of the loop over the trades.
AssetsDone ==
    /\ mo.pc = "assets"
    /\ mo.k = Len(Assets)
    /\ mo' = IF mo.all_trades = <<>> THEN MonthNoTrades
             ELSE MonthLocals(mo.all_trades, Profile)
    /\ UNCHANGED <<trades, ph, phase1_sim, exceptChal>>

AssetsNext ==
    \/ AssetBacktest
    \/ AssetsDone
    \/ MonthTrade
    \/ MonthFinish

SpecAssets == AssetsInit /\ [][AssetsNext]_vars

---------------------------------------------------------------------------
(* SpecBooks: one chronological sequence of closed trades reported both to  *)
(* simulate_challenge_phase, as the backtest does, and to the RiskManager   *)
(* through open_trade and close_trade, as live trading does                 *)

\* The first n trades of a list are in non-decreasing order of their dates.
InDateOrder(list, n) ==
    \A j \in 1..n, k \in 1..n : j < k => TradeDate(list[j]) <= TradeDate(list[k])

\* Two lists hold the same trades, each as many times.
SameTrades(a, b) ==
    /\ Len(a) = Len(b)
    /\ \A t \in {a[j] : j \in DOMAIN a} :
          Cardinality({j \in DOMAIN a : a[j] = t}) = Cardinality({j \in DOMAIN b : b[j] = t})

\* Noon of a day of the month, as an exit_datetime or a wall-clock time.
Noon(date) == At(date, 12, 0)

BooksInit ==
    /\ trades \in {list \in TradeLists : InDateOrder(list, Len(list))}
    /\ ph = NotCalled
    /\ phase1_sim = NoCall
    /\ mo = NoCall
    /\ rm = NewRiskManager(Profile)
    /\ clock = Noon(1)
    /\ TradeIdle
    /\ LiveIdle
    /\ TrackIdle
    /\ ReplayIdle

\* The next trade of the list goes through one iteration of the simulator's
\* loop, and is reported to the RiskManager with the same P&L and its closing
\* day as exit_datetime, on that day or on a later one.
ReportTrade ==
    /\ ph.pc = "loop"
    /\ ph.i < Len(trades)
    /\ LET t == trades[ph.i + 1]
           a == PhaseArgs(Profile)
           pnl_usd == PnlUsd(t.rr, PctOf(a.account_size, a.risk_per_trade_pct))
       IN  /\ ph' = PhaseLoopBody(ph, t, a)
           /\ \E today \in Days :
                  /\ today >= TradeDate(t)
                  /\ Noon(today) >= clock
                  /\ clock' = Noon(today)
                  /\ rm' = close_trade(
                               open_trade(rm, TradeRecord("EUR_USD_bullish", 100),
                                          Noon(today)),
                               "EUR_USD_bullish", 0, pnl_usd, Noon(TradeDate(t)),
                               Noon(today)).rm
    /\ UNCHANGED <<trades, phase1_sim, mo, tradeVars, liveVars, trackVars, replayVars>>

BooksNext ==
    \/ PhaseStart
    \/ ReportTrade

SpecBooks == BooksInit /\ [][BooksNext]_vars

---------------------------------------------------------------------------
(* SpecLive: the autoscan coroutine activating the trade ideas of each scan,
   with the /cleartrades command served whenever the event loop is free *)

\* The keys of the trade ideas, in the order the scan goes through its markets.
LiveKeys == <<"EUR_USD_bullish", "GBP_USD_bearish", "XAU_USD_bullish", "BTC_USD_bullish">>

\* risk_usd of the sizing: 1% of the account, or 3%.
SizingRisks == {100, 300}

\* pending_trades of one scan: ideas with status "active" whose key is not in
\* ACTIVE_TRADES, in the order of the scan, each key at most once.
PendingLists(active) ==
    LET props == {Proposal(LiveKeys[i], r) : i \in DOMAIN LiveKeys, r \in SizingRisks}
        Pos(k) == CHOOSE i \in DOMAIN LiveKeys : LiveKeys[i] = k
    IN  {s \in SeqsUpTo(props, MaxPending) :
            /\ \A i \in DOMAIN s : s[i].trade_key \notin Keys(active)
            /\ \A i, j \in DOMAIN s :
                  i < j => Pos(s[i].trade_key) < Pos(s[j].trade_key)}

LiveInit ==
    /\ rm = NewRiskManager(Profile)
    /\ clock = At(0, 2, 0)
    /\ ACTIVE_TRADES = <<>>
    /\ autoscan = Sleeping(0)
    /\ TrackIdle
    /\ TradeIdle
    /\ ChalIdle
    /\ ReplayIdle

\* autoscan_loop from the scan to the await on the live prices.
Scan ==
    /\ autoscan.pc = "sleep"
    /\ autoscan.scans < MaxScans
    /\ \E pending \in PendingLists(ACTIVE_TRADES) :
          autoscan' = [autoscan EXCEPT !.pc = "pending", !.pending_trades = pending]
    /\ UNCHANGED <<ACTIVE_TRADES, riskVars, exceptLive>>

\* activate_trade, lines 112-124, for the next pending trade: a refusal
\* returns to the loop, which awaits the send of the blocked notice.
ActivateCheck ==
    /\ autoscan.pc = "pending"
    /\ autoscan.pending_trades # <<>>
    /\ LET prop == Head(autoscan.pending_trades)
           v == ActivateVerdict(ACTIVE_TRADES, rm, prop, clock)
       IN  /\ rm' = v.rm
           /\ autoscan' =
                IF Admits(v.result)
                THEN [autoscan EXCEPT
                        !.pc = "record",
                        !.checked = [proposal |-> prop, open_trades |-> rm.open_trades],
                        !.message = v.result,
                        !.running = ~YieldsInActivate]
                ELSE [autoscan EXCEPT
                        !.pending_trades = Tail(@),
                        !.message = v.result]
    /\ UNCHANGED <<ACTIVE_TRADES, clock, exceptLive>>

\* activate_trade, lines 126-148, then the loop up to the await on the send of
\* the setup.
ActivateRecord ==
    /\ autoscan.pc = "record"
    /\ LET r == ActivateRecordTrade(ACTIVE_TRADES, rm, autoscan.checked.proposal, clock)
       IN  /\ rm' = r.rm
           /\ ACTIVE_TRADES' = r.active
    /\ autoscan' = [autoscan EXCEPT !.pc = "pending", !.pending_trades = Tail(@),
                                    !.checked = None, !.running = FALSE]
    /\ UNCHANGED <<clock, exceptLive>>

\* check_trade_updates: an active trade hit its stop or a target and is closed
\* through close_trade_with_pnl.
UpdateClose ==
    /\ autoscan.pc = "pending"
    /\ autoscan.pending_trades = <<>>
    /\ Len(rm.closed_trades) < MaxClosed
    /\ \E key \in Keys(ACTIVE_TRADES) :
          \E pnl_usd \in {-rm.open_trades[key].risk_usd, 2 * rm.open_trades[key].risk_usd} :
              LET r == close_trade_with_pnl(ACTIVE_TRADES, rm, key, pnl_usd, clock)
              IN  /\ rm' = r.rm
                  /\ ACTIVE_TRADES' = r.active
    /\ UNCHANGED <<autoscan, clock, exceptLive>>

\* The end of one run of autoscan_loop.
ScanEnd ==
    /\ autoscan.pc = "pending"
    /\ autoscan.pending_trades = <<>>
    /\ autoscan' = Sleeping(autoscan.scans + 1)
    /\ UNCHANGED <<ACTIVE_TRADES, riskVars, exceptLive>>

\* The /cleartrades command, run when the event loop is free.
ClearTrades ==
    /\ ~autoscan.running
    /\ ACTIVE_TRADES # <<>>
    /\ Len(rm.closed_trades) < MaxClosed
    /\ LET r == clear_all_trades(ACTIVE_TRADES, rm, clock)
       IN  /\ rm' = r.rm
           /\ ACTIVE_TRADES' = r.active
    /\ UNCHANGED <<autoscan, clock, exceptLive>>

LiveNext ==
    \/ Scan
    \/ ActivateCheck
    \/ ActivateRecord
    \/ UpdateClose
    \/ ScanEnd
    \/ ClearTrades

SpecLive == LiveInit /\ [][LiveNext]_vars

---------------------------------------------------------------------------
(* SpecTrack: trades activated, followed by check_trade_updates at each live  *)
(* price, closed by it or by /cleartrades                                     *)

\* The trade ideas by key: a bullish trade with two targets, a bearish one
\* with two targets, and two bullish ones with three, TP2 at the level of TP1.
TrackKeys == {"EUR_USD_bullish", "GBP_USD_bearish", "XAU_USD_bullish", "BTC_USD_bullish"}
Idea(key) ==
    CASE key = "EUR_USD_bullish" -> ScanResult("bullish", 2, 1, 3, 4, None)
      [] key = "GBP_USD_bearish" -> ScanResult("bearish", 3, 4, 2, 1, None)
      [] OTHER -> ScanResult("bullish", 2, 1, 3, 3, 4)

\* sizing.get("risk_usd", 100)
TrackRisk == 100

TrackInit ==
    /\ rm = NewRiskManager(Profile)
    /\ clock = At(0, 2, 0)
    /\ ACTIVE_TRADES = <<>>
    /\ TRADE_PROGRESS = <<>>
    /\ autoscan = NoCall
    /\ TradeIdle
    /\ ChalIdle
    /\ ReplayIdle

\* activate_trade for an idea of the scan, active already or not.
TrackActivate ==
    /\ OpenedToday < MaxOpened
    /\ \E key \in TrackKeys :
          LET r == activate_trade(ACTIVE_TRADES, rm, Proposal(key, TrackRisk), clock)
          IN  /\ rm' = r.rm
              /\ ACTIVE_TRADES' = r.active
              /\ TRADE_PROGRESS' = IF r.success
                                   THEN ensure_trade_progress(TRADE_PROGRESS, key)
                                   ELSE TRADE_PROGRESS
    /\ UNCHANGED <<clock, exceptTrack>>

\* check_trade_updates for one active trade at the live price of its symbol.
TrackCheck ==
    /\ Len(rm.closed_trades) < MaxClosed
    /\ \E key \in Keys(ACTIVE_TRADES), price \in Prices :
          LET r == check_trade_update(ACTIVE_TRADES, TRADE_PROGRESS, rm, key, Idea(key),
                                      TrackRisk, price, clock)
          IN  /\ rm' = r.rm
              /\ ACTIVE_TRADES' = r.active
              /\ TRADE_PROGRESS' = r.progress
    /\ UNCHANGED <<clock, exceptTrack>>

\* close_trade_with_pnl called for a key, active or not, at a P&L of zero.
TrackClose ==
    /\ Len(rm.closed_trades) < MaxClosed
    /\ \E key \in TrackKeys :
          LET r == close_trade_with_pnl(ACTIVE_TRADES, rm, key, 0, clock)
          IN  /\ rm' = r.rm
              /\ ACTIVE_TRADES' = r.active
              /\ TRADE_PROGRESS' = IF r.success /\ key \in DOMAIN TRADE_PROGRESS
                                   THEN Pop(TRADE_PROGRESS, key) ELSE TRADE_PROGRESS
    /\ UNCHANGED <<clock, exceptTrack>>

\* The /cleartrades command.
TrackClear ==
    /\ ACTIVE_TRADES # <<>>
    /\ Len(rm.closed_trades) < MaxClosed
    /\ LET r == clear_all_trades(ACTIVE_TRADES, rm, clock)
       IN  /\ rm' = r.rm
           /\ ACTIVE_TRADES' = r.active
    /\ TRADE_PROGRESS' = <<>>
    /\ UNCHANGED <<clock, exceptTrack>>

TrackNext == TrackActivate \/ TrackCheck \/ TrackClose \/ TrackClear

SpecTrack == TrackInit /\ [][TrackNext]_vars

---------------------------------------------------------------------------
(* SpecReplay: run_backtest replayed in step over two feeds that are the same
   but for one candle, the spike *)

\* Daily candles 1..29 are history; the requested period is day 29, which has
\* fewer than the 30 candles the loop asks for, and the MaxDays days after it.
FirstDay == 29 + 1
LastDay == 29 + MaxDays

\* High and low of a daily candle of the period: quiet, up, down.
BarShapes == {<<2, 2>>, <<3, 2>>, <<2, 1>>}

\* High and low of the spike when it is not one of the shapes.
SpikeShape == <<4, 1>>

DailyHistory == [n \in 1..29 |-> Candle(2 * n, 2, 2)]
WeeklyHistory == [n \in 1..7 |-> Candle(8 * n - 6, 2, 2)]
MonthlyHistory == <<Candle(2, 2, 2)>>
H4History == <<Candle(None, 2, 2), Candle(2 * 29 + 1, 2, 2)>>

\* The candles from day 30 on: one daily per day, a weekly opening on the
\* first day (the eighth weekly candle), a monthly on the second, a 4-hour
\* candle in the middle of each day.
PeriodDaily(shapes) ==
    [i \in DOMAIN shapes |-> Candle(2 * (29 + i), shapes[i][1], shapes[i][2])]
PeriodWeekly == <<Candle(2 * FirstDay, 2, 2)>>
PeriodMonthly == <<Candle(2 * (FirstDay + 1), 2, 2)>>
PeriodH4 == [i \in 1..MaxDays |-> Candle(2 * (29 + i) + 1, 2, 2)]

\* What get_ohlcv returns for the four timeframes.
Feed(shapes) ==
    [daily |-> DailyHistory \o PeriodDaily(shapes),
     weekly |-> WeeklyHistory \o PeriodWeekly,
     monthly |-> MonthlyHistory \o PeriodMonthly,
     h4 |-> H4History \o PeriodH4]

Timeframes == {"daily", "weekly", "monthly", "h4"}

\* The feed with candle i of one timeframe given another high and low.
WithSpike(s, tf, i, shape) ==
    [s EXCEPT ![tf][i] = Candle(@.time, shape[1], shape[2])]

\* What the strategy may answer (strategy_core is outside this repository's
\* sources): nothing to trade, a long or a short at entry 2.
NoCandidate ==
    [status |-> "scan_only", direction |-> "bullish", entry |-> None, sl |-> None,
     tp1 |-> None, tp2 |-> None, tp3 |-> None]

CandidateSupply ==
    {NoCandidate,
     [status |-> "active", direction |-> "bullish", entry |-> 2, sl |-> 1,
      tp1 |-> 3, tp2 |-> None, tp3 |-> None],
     [status |-> "active", direction |-> "bearish", entry |-> 2, sl |-> 3,
      tp1 |-> 1, tp2 |-> None, tp3 |-> None]}

ReplayInit ==
    /\ \E shapes \in [1..MaxDays -> BarShapes] :
          \E tf \in Timeframes :
              \E i \in DOMAIN Feed(shapes)[tf], shape \in BarShapes \cup {SpikeShape} :
                  LET a == Feed(shapes)
                      c == a[tf][i]
                  IN  /\ c.time # None
                      /\ c.time >= 2 * FirstDay
                      /\ <<c.high, c.low>> # shape
                      /\ tf # "daily" => shape = SpikeShape
                      /\ feed = [A |-> a, B |-> WithSpike(a, tf, i, shape),
                                 spike |-> c.time]
    /\ replay = [A |-> NewReplay, B |-> NewReplay,
                 indices |-> PeriodIndices(feed.A.daily, FirstDay - 1, LastDay),
                 pos |-> 1, returned |-> FALSE]
    /\ TradeIdle
    /\ RiskIdle
    /\ ChalIdle
    /\ LiveIdle
    /\ TrackIdle

\* The loop is on the same bar in both replays; the strategy answers the same
\* request with the same candidate.
ReplayBar ==
    /\ ~replay.returned
    /\ replay.pos <= Len(replay.indices)
    /\ \E idx \in {replay.indices[replay.pos]} :
          \E asksA \in {AsksCandidate(replay.A, feed.A, idx)},
             asksB \in {AsksCandidate(replay.B, feed.B, idx)} :
              \E same \in {asksA /\ asksB /\ RequestAt(feed.A, idx) = RequestAt(feed.B, idx)} :
                  \E candA \in IF asksA THEN CandidateSupply ELSE {NoCandidate} :
                      \E candB \in IF same THEN {candA}
                                    ELSE IF asksB THEN CandidateSupply
                                    ELSE {NoCandidate} :
                          replay' = [replay EXCEPT
                              !.A = ReplayBarStep(replay.A, feed.A, idx, candA),
                              !.B = ReplayBarStep(replay.B, feed.B, idx, candB),
                              !.pos = @ + 1]
    /\ UNCHANGED <<feed, exceptReplay>>

\* Past the last bar run_backtest returns its trades.
ReplayReturn ==
    /\ ~replay.returned
    /\ replay.pos > Len(replay.indices)
    /\ replay' = [replay EXCEPT !.returned = TRUE]
    /\ UNCHANGED <<feed, exceptReplay>>

ReplayNext ==
    \/ ReplayBar
    \/ ReplayReturn

SpecReplay == ReplayInit /\ [][ReplayNext]_vars

---------------------------------------------------------------------------
(* SpecPeriod: run_backtest from the period string to the indices of the    *)
(* daily candles it replays                                                  *)

\* date.today(), after the last daily candle.
Today == 270

\* The daily candles get_ohlcv returns: candle i is dated day i.  A few, one
\* less than the default window, as many, and one and two more.
DailyCounts == {2, 259, 260, 261, 262}

\* The sides of the period strings: nothing, "now", other text, the days 2,
\* 261 and 265 (the last after every candle), and the month of days 3 and 4.
PeriodTexts ==
    {EmptyText, NowText, OtherText, DayText(2), DayText(261), DayText(265),
     MonthText(3, 4)}

PeriodStrings ==
    {PeriodString(left, FALSE, EmptyText) : left \in PeriodTexts}
    \cup {PeriodString(left, TRUE, right) : left \in PeriodTexts, right \in PeriodTexts}

PeriodInit ==
    /\ \E n \in DailyCounts : feed = [daily |-> [i \in 1..n |-> Candle(2 * i, 1, 1)]]
    /\ \E period \in PeriodStrings : replay = [pc |-> "parse", period |-> period]
    /\ TradeIdle
    /\ RiskIdle
    /\ ChalIdle
    /\ LiveIdle
    /\ TrackIdle

ParsePeriod ==
    /\ replay.pc = "parse"
    /\ LET req == parse_period(replay.period, Today)
       IN  replay' = [pc |-> "select", period |-> replay.period,
                      start_req |-> req[1], end_req |-> req[2]]
    /\ UNCHANGED <<feed, exceptReplay>>

SelectIndices ==
    /\ replay.pc = "select"
    /\ replay' = [pc |-> "loop", period |-> replay.period,
                  start_req |-> replay.start_req, end_req |-> replay.end_req,
                  indices |-> select_indices(feed.daily, replay.start_req,
                                             replay.end_req)]
    /\ UNCHANGED <<feed, exceptReplay>>

PeriodNext ==
    \/ ParsePeriod
    \/ SelectIndices

SpecPeriod == PeriodInit /\ [][PeriodNext]_vars

---------------------------------------------------------------------------
(* SpecYear: run_yearly_backtest, one backtest asked for each month          *)

\* The positional parameters of run_backtest(asset, period).
RunBacktestParams == 2

\* calendar.monthrange(year, month)[1]: the number of days of the month.
monthrange(year, month) ==
    CASE month = 2 ->
             IF year % 4 = 0 /\ (year % 100 # 0 \/ year % 400 = 0) THEN 29 ELSE 28
      [] month \in {4, 6, 9, 11} -> 30
      [] OTHER -> 31

\* The two sides of the period string of a month, "<month name> 1" and
\* "<end_day>, <year>": text in none of the formats _parse_partial_date reads
\* (neither a day, a month name and a year, nor a month name and a year).
MonthDayText(month, day) == [kind |-> "text", month |-> month, day |-> day]
DayYearText(day, year) == [kind |-> "text", day |-> day, year |-> year]

\* f"{month_name} 1 - {end_day}, {year}"
month_period(year, month) ==
    LET end_day == IF month = 12 THEN 31 ELSE monthrange(year, month + 1) - 1
    IN  PeriodString(MonthDayText(month, 1), TRUE, DayYearText(end_day, year))

\* The sum of the R of the first k trades of a list.
RECURSIVE SumRR(_, _)
SumRR(list, k) ==
    IF k = 0 THEN 0 ELSE list[k].rr + SumRR(list, k - 1)

\* What run_backtest(asset, period) returns: the indices it replays, and of
\* its loop the trades entered on the candles replayed, with their sums (a
\* trade's profit and return stand as its R).
run_backtest(s, period, today) ==
    LET req == parse_period(period, today)
        indices == select_indices(s.daily, req[1], req[2])
        found == SelectSeq(s.trades,
                     LAMBDA t : \E j \in DOMAIN indices : indices[j] = t.entry_index)
    IN  [indices |-> indices,
         trades |-> found,
         total_trades |-> Len(found),
         total_profit_usd |-> SumRR(found, Len(found)),
         net_return_pct |-> SumRR(found, Len(found))]

\* A call of run_backtest with these positional arguments: TypeError unless
\* there are as many as it has parameters.
call_run_backtest(args, s, today) ==
    IF Len(args) # RunBacktestParams
    THEN [raises |-> TRUE]
    ELSE [raises |-> FALSE, result |-> run_backtest(s, args[2], today)]

\* The years asked for, a common year and a leap year.
Years == {2023, 2024}

\* The daily candles of the year, candle i dated the i-th day of the year:
\* those up to the end of October, and those of a whole leap year.
YearCandles == {304, 366}

\* The trades the replay finds, each with the candle it is entered on: in
\* January, February, March and December.
YearTrades ==
    {<<>>,
     <<[entry_index |-> 10, rr |-> 200]>>,
     <<[entry_index |-> 40, rr |-> -100], [entry_index |-> 70, rr |-> 300]>>,
     <<[entry_index |-> 10, rr |-> 200], [entry_index |-> 59, rr |-> -100],
       [entry_index |-> 350, rr |-> 150]>>}

YearInit ==
    /\ \E n \in YearCandles, found \in YearTrades :
          feed = [daily |-> [i \in 1..n |-> Candle(2 * i, 1, 1)], trades |-> found]
    /\ \E year \in Years, asset \in {"EUR_USD", "XAU_USD"} :
          replay = [pc |-> "months", asset |-> asset, year |-> year,
                    profile |-> Profile, month |-> 1, monthly_results |-> <<>>,
                    yearly_trades |-> <<>>, yearly_profit |-> 0, yearly_return |-> 0]
    /\ TradeIdle
    /\ RiskIdle
    /\ ChalIdle
    /\ LiveIdle
    /\ TrackIdle

\* One iteration of the loop over the months: the try and its except.
YearMonth ==
    /\ replay.pc = "months"
    /\ replay.month <= 12
    /\ LET period == month_period(replay.year, replay.month)
           call == call_run_backtest(<<replay.asset, period, replay.profile>>,
                                     feed, Today)
       IN  replay' =
               IF call.raises
               THEN [replay EXCEPT !.month = @ + 1]
               ELSE [replay EXCEPT
                        !.month = @ + 1,
                        !.monthly_results = Append(@, call.result),
                        !.yearly_trades = @ \o call.result.trades,
                        !.yearly_profit = @ + call.result.total_profit_usd,
                        !.yearly_return = @ + call.result.net_return_pct]
    /\ UNCHANGED <<feed, exceptReplay>>

\* After the loop: the yearly result.
YearResult ==
    /\ replay.pc = "months"
    /\ replay.month > 12
    /\ replay' = [pc |-> "year", asset |-> replay.asset, year |-> replay.year,
                  total_trades |-> Len(replay.yearly_trades),
                  wins |-> Cardinality({j \in DOMAIN replay.yearly_trades :
                                           replay.yearly_trades[j].rr > 0}),
                  net_return_pct |-> replay.yearly_return,
                  total_profit_usd |-> replay.yearly_profit,
                  monthly_results |-> replay.monthly_results,
                  trades |-> replay.yearly_trades]
    /\ UNCHANGED <<feed, exceptReplay>>

YearNext ==
    \/ YearMonth
    \/ YearResult

SpecYear == YearInit /\ [][YearNext]_vars

---------------------------------------------------------------------------
(* SpecBacktest: one replay of run_backtest, the strategy answering with   *)
(* candidates of every kind                                                *)

\* The replayed period is one day longer than that of the two-replay runs, so
\* that two trades can be opened and closed in it.
BacktestDays == MaxDays + 1

\* SIGNAL_MODE is read from the environment (config.py 62).
SignalModes == {"standard", "aggressive"}

\* What the strategy may answer (strategy_core is outside this repository's
\* sources): the flags it found true and the levels it computed, a level it
\* could not compute being None.
OfferedFlags ==
    {{}, {"rr"}, {"location"}, {"confirmation", "rr"}, {"confirmation", "location"},
     {"rr", "location"}, {"rr", "fib", "structure"}}

OfferedLevels ==
    {[direction |-> "bullish", entry |-> 2, sl |-> 1, tp1 |-> 3],
     [direction |-> "bearish", entry |-> 2, sl |-> 3, tp1 |-> 1],
     [direction |-> "bullish", entry |-> 2, sl |-> 1, tp1 |-> None],
     [direction |-> "bearish", entry |-> 2, sl |-> None, tp1 |-> 1],
     [direction |-> "bearish", entry |-> None, sl |-> 3, tp1 |-> 1],
     [direction |-> "bearish", entry |-> 2, sl |-> 2, tp1 |-> 1]}

CandidateOffers(SIGNAL_MODE) ==
    {[status |-> Status(f, SIGNAL_MODE), direction |-> l.direction,
      entry |-> l.entry, sl |-> l.sl, tp1 |-> l.tp1, tp2 |-> None, tp3 |-> None] :
        f \in OfferedFlags, l \in OfferedLevels}

BacktestInit ==
    /\ \E shapes \in [1..BacktestDays -> BarShapes] :
          feed = [A |-> Feed(shapes), B |-> Feed(shapes), spike |-> None]
    /\ \E mode \in SignalModes :
          replay = [A |-> NewReplay, B |-> NewReplay,
                    indices |-> PeriodIndices(feed.A.daily, FirstDay - 1, 29 + BacktestDays),
                    pos |-> 1, returned |-> FALSE, offered |-> NoCall,
                    SIGNAL_MODE |-> mode]
    /\ TradeIdle
    /\ RiskIdle
    /\ ChalIdle
    /\ LiveIdle
    /\ TrackIdle

\* One iteration of the loop; offered is what the strategy answered on this
\* bar, NoCall when the iteration did not come to ask (each request carries
\* the time of its bar, so a new request is a request of this bar).
BacktestBar ==
    /\ ~replay.returned
    /\ replay.pos <= Len(replay.indices)
    /\ \E idx \in {replay.indices[replay.pos]}, cand \in CandidateOffers(replay.SIGNAL_MODE) :
          \E next \in {ReplayBarStep(replay.A, feed.A, idx, cand)} :
              replay' = [replay EXCEPT
                  !.A = next,
                  !.pos = @ + 1,
                  !.offered = IF next.request # replay.A.request THEN cand ELSE NoCall]
    /\ UNCHANGED <<feed, exceptReplay>>

BacktestNext ==
    \/ BacktestBar
    \/ ReplayReturn

SpecBacktest == BacktestInit /\ [][BacktestNext]_vars

---------------------------------------------------------------------------
(* Claims about the trade lifecycle (SpecTrade) *)

\* The bar's range reaches a level on the stop side / on the target side.
Breaches(direction, stop, b) ==
    IF direction = "bullish" THEN b.low <= stop ELSE b.high >= stop
Reaches(direction, level, b) ==
    level # None /\ IF direction = "bullish" THEN b.high >= level ELSE b.low <= level

\* C1: while the first-target flag is not set, every bar whose range breaches
\* the stop closes the trade as SL with R = -1, whatever targets the same bar
\* reaches: it never closes as TP1+Trail or at a target on that bar.
C1_StopFirstBeforeTP1 ==
    [][(/\ closed = NoResult
        /\ ~trade.tp1_hit
        /\ Breaches(trade.direction, trade.sl, bar'))
       => (/\ closed'.exit_reason = "SL"
           /\ closed'.rr.num = -(closed'.rr.den)
           /\ ~trade'.tp1_hit)]_vars

\* C1 witness: a trade closed as SL on a bar whose range also reached TP1.
C1_Witness ==
    /\ closed # NoResult
    /\ closed.exit_reason = "SL"
    /\ Reaches(trade.direction, trade.tp1, bar)
    /\ Breaches(trade.direction, trade.sl, bar)

\* C2: once TP1 was reached on an earlier bar the active stop is the entry
\* price; a later bar breaching it closes the trade as TP1+Trail with R = 0,
\* and such a trade never closes as SL or with a negative R.
C2_BreakEvenAfterTP1 ==
    /\ [](trade.tp1_hit => trade.trailing_sl = trade.entry)
    /\ [][(closed = NoResult /\ trade.tp1_hit)
          => /\ Breaches(trade.direction, trade.entry, bar')
                => (/\ closed'.exit_reason = "TP1+Trail"
                    /\ closed'.rr.num = 0)
             /\ closed' # NoResult
                => (/\ closed'.exit_reason # "SL"
                    /\ closed'.rr.num * closed'.rr.den >= 0)]_vars

\* C2 witness: TP1 was hit on an earlier bar and a later bar, still above the
\* original stop, closed the trade at break-even.
C2_Witness ==
    /\ closed # NoResult
    /\ closed.exit_reason = "TP1+Trail"
    /\ bar.n >= 2
    /\ ~Reaches(trade.direction, trade.tp1, bar)
    /\ ~Breaches(trade.direction, trade.sl, bar)
    /\ Breaches(trade.direction, trade.entry, bar)

\* C10: the first-target flag goes up only on a bar that reaches TP1 without
\* breaching the stop, and on the first such bar; the trailing stop is then
\* the entry price and the original stop is unchanged; afterwards the flag,
\* the break-even stop and the original stop never change again.
C10_FirstTargetOnce ==
    /\ [][(~trade.tp1_hit /\ trade'.tp1_hit)
          => (/\ Reaches(trade.direction, trade.tp1, bar')
              /\ ~Breaches(trade.direction, trade.sl, bar')
              /\ trade'.trailing_sl = trade.entry
              /\ trade'.sl = trade.sl)]_vars
    /\ [][(/\ closed = NoResult
           /\ ~trade.tp1_hit
           /\ Reaches(trade.direction, trade.tp1, bar')
           /\ ~Breaches(trade.direction, trade.sl, bar'))
          => trade'.tp1_hit]_vars
    /\ [][~trade.tp1_hit => (trade'.tp1_hit \/ trade' = trade)]_vars
    /\ [][trade.tp1_hit => trade' = trade]_vars

\* C10 witness: the flag is up, the trade is still open two bars later with
\* its stop at break-even and its original stop in place.
C10_Witness ==
    /\ closed = NoResult
    /\ trade.tp1_hit
    /\ bar.n >= 2
    /\ trade.trailing_sl = trade.entry
    /\ trade.sl # trade.entry
    /\ ~Reaches(trade.direction, trade.tp1, bar)

\* C11: a trade closes as TP2 or TP3 only when the first-target flag was
\* already set before the bar and the bar's range reaches that target; its R
\* is then (target - entry)/risk for a bullish trade and (entry - target)/risk
\* for a bearish one, and a bar that reaches TP3 never closes the trade as TP2.
C11_TargetExit ==
    [][(closed = NoResult /\ closed' # NoResult /\ closed'.exit_reason \in {"TP2", "TP3"})
       => LET level == IF closed'.exit_reason = "TP3" THEN trade.tp3 ELSE trade.tp2
          IN  /\ trade.tp1_hit
              /\ Reaches(trade.direction, level, bar')
              /\ closed'.rr.den = Abs(trade.entry - trade.sl)
              /\ closed'.rr.num = IF trade.direction = "bullish"
                                  THEN level - trade.entry
                                  ELSE trade.entry - level
              /\ closed'.exit_reason = "TP2"
                    => ~Reaches(trade.direction, trade.tp3, bar')]_vars

\* C11 witness: a bearish trade whose flag went up on an earlier bar closed as
\* TP3 on a bar that reached both TP2 and a farther TP3.
C11_Witness ==
    /\ closed # NoResult
    /\ closed.exit_reason = "TP3"
    /\ trade.direction = "bearish"
    /\ trade.tp2 # trade.tp3
    /\ Reaches(trade.direction, trade.tp2, bar)
    /\ bar.n >= 2

\* The bar reaches a target beyond the first one.
ReachesFurtherTarget(t, b) ==
    Reaches(t.direction, t.tp2, b) \/ Reaches(t.direction, t.tp3, b)

\* C31, as claimed: with the first-target flag already set, a bar that both
\* breaches the stop and reaches TP2 or TP3 closes the trade at the target
\* (TP3, else TP2) rather than as a stop exit.
C31_TargetBeforeStopAfterTP1 ==
    [][(/\ closed = NoResult
        /\ trade.tp1_hit
        /\ Breaches(trade.direction, ActiveStop(trade), bar')
        /\ Breaches(trade.direction, trade.sl, bar')
        /\ ReachesFurtherTarget(trade, bar'))
       => closed'.exit_reason =
             IF Reaches(trade.direction, trade.tp3, bar') THEN "TP3" ELSE "TP2"]_vars

\* C31, as the code has it: with the first-target flag already set, the stop
\* is checked before the targets as it is before TP1.  A bar that both
\* breaches the break-even stop and reaches TP2 or TP3 closes the trade as
\* TP1+Trail with R = 0, and a trade closes at TP2 or TP3 only on a bar that
\* does not breach the break-even stop.
C31_StopBeforeTargetAfterTP1 ==
    /\ [][(/\ closed = NoResult
           /\ trade.tp1_hit
           /\ Breaches(trade.direction, ActiveStop(trade), bar')
           /\ ReachesFurtherTarget(trade, bar'))
          => (/\ closed'.exit_reason = "TP1+Trail"
              /\ closed'.rr.num = 0)]_vars
    /\ [][(closed = NoResult /\ closed' # NoResult
           /\ closed'.exit_reason \in {"TP2", "TP3"})
          => ~Breaches(trade.direction, trade.entry, bar')]_vars

\* C31 witness: a trade closed as TP1+Trail on a bar that reached TP2 and came
\* back to the entry price, its R the one computed from the trailing stop
\* (0 over the risk distance), which only the stop path after TP1 computes.
C31_Witness ==
    /\ closed # NoResult
    /\ closed.exit_reason = "TP1+Trail"
    /\ trade.risk > 1
    /\ closed.rr = Rat(0, trade.risk)
    /\ Reaches(trade.direction, trade.tp2, bar)
    /\ Breaches(trade.direction, trade.entry, bar)

\* C36: on the bar where TP1 is first reached without the stop being
\* breached, the trade never closes at TP2 or TP3, whatever the bar's range
\* reaches: the flag goes up and the stop moves to the entry price, and the
\* trade stays open, unless the bar's range also touches the entry price,
\* when it closes on that bar as TP1+Trail with R = 0.  A trade closed at TP2
\* or TP3 had its flag set before the bar that closed it.
C36_NoTargetExitOnTP1Bar ==
    /\ [][(/\ closed = NoResult
           /\ ~trade.tp1_hit
           /\ Reaches(trade.direction, trade.tp1, bar')
           /\ ~Breaches(trade.direction, trade.sl, bar'))
          => (/\ trade'.tp1_hit
              /\ ActiveStop(trade') = trade.entry
              /\ IF Breaches(trade.direction, trade.entry, bar')
                 THEN /\ closed' # NoResult
                      /\ closed'.exit_reason = "TP1+Trail"
                      /\ closed'.rr.num = 0
                 ELSE closed' = NoResult)]_vars
    /\ [][(closed = NoResult /\ ~trade.tp1_hit /\ closed' # NoResult)
          => closed'.exit_reason \notin {"TP2", "TP3"}]_vars

\* C36 witness: the first bar of a trade reached TP1, TP2 and a farther TP3
\* without coming back to the entry price, and the trade is still open with
\* its flag set and its stop at break-even.
C36_Witness ==
    /\ closed = NoResult
    /\ bar.n = 1
    /\ trade.tp1_hit
    /\ trade.trailing_sl = trade.entry
    /\ trade.tp3 # None
    /\ trade.tp3 # trade.tp1
    /\ Reaches(trade.direction, trade.tp3, bar)
    /\ Reaches(trade.direction, trade.tp2, bar)

---------------------------------------------------------------------------
(* Claims about the Risk Manager's admission check, checked under SpecRisk *)

\* The moment a call with this check_time is judged at.
JudgedAt(check_time) == IF check_time = None THEN clock ELSE check_time

\* A trading-time restriction applies at minute now of the week: Friday from
\* 20:00, Monday before 02:00, or within two minutes of a registered news
\* event.
TimeRestricted(now) ==
    \/ (now \div 1440) % 7 = 4 /\ (now % 1440) >= 20 * 60
    \/ (now \div 1440) % 7 = 0 /\ (now % 1440) < 2 * 60
    \/ \E i \in DOMAIN rm.news_events :
          now - 2 <= rm.news_events[i] /\ rm.news_events[i] <= now + 2

OpenCount == Cardinality(DOMAIN rm.open_trades)

OpenRiskNow ==
    LET ids == DOMAIN rm.open_trades
        Sum[S \in SUBSET ids] ==
            IF S = {} THEN 0
            ELSE LET k == CHOOSE x \in S : TRUE
                 IN  rm.open_trades[k].risk_usd + Sum[S \ {k}]
    IN  Sum[ids]

RealizedToday ==
    IF DateOf(clock) \in DOMAIN rm.daily_pnl
    THEN rm.daily_pnl[DateOf(clock)].realized_pnl_usd ELSE 0

Verdict(risk_usd, check_time) ==
    can_add_trade(Profile, rm, risk_usd, check_time, clock).result

\* C4: with three trades open (the 10K profile's max_concurrent_trades) and no
\* time restriction, can_add_trade answers BLOCKED_CONCURRENT whatever risk is
\* proposed, zero included.
C4_ConcurrencyCap ==
    rm # NoCall =>
        \A risk_usd \in ProposedRisks, check_time \in CheckTimes :
            (OpenCount = 3 /\ ~TimeRestricted(JudgedAt(check_time)))
                => Verdict(risk_usd, check_time) = "BLOCKED_CONCURRENT"

\* Three trades are open at an unrestricted moment and a proposal of zero
\* risk is refused for concurrency.
C4_Witness ==
    /\ rm # NoCall
    /\ OpenCount = 3
    /\ ~TimeRestricted(clock)
    /\ Verdict(0, None) = "BLOCKED_CONCURRENT"

\* The five rejection conditions, in the order of the claim.
Rejects(risk_usd, check_time) ==
    LET projected == OpenRiskNow + risk_usd
        drawdown == IF rm.current_balance < 10000
                    THEN 10000 - rm.current_balance ELSE 0
        daily == RealizedToday - projected
    IN  << TimeRestricted(JudgedAt(check_time)),
           OpenCount >= 3,
           projected > 300,
           (IF daily < 0 THEN -daily ELSE daily) > 400,
           drawdown + projected > 900 >>

FirstRejecting(rej) ==
    IF \E i \in 1..5 : rej[i]
    THEN CHOOSE i \in 1..5 : rej[i] /\ \A j \in 1..(i - 1) : ~rej[j]
    ELSE 0

VerdictsOf(i) ==
    CASE i = 0 -> {"ALLOWED", "WARNING_NEAR_LIMIT"}
      [] i = 1 -> {"BLOCKED_FRIDAY_CUTOFF", "BLOCKED_MONDAY_COOLDOWN", "BLOCKED_NEWS_EVENT"}
      [] i = 2 -> {"BLOCKED_CONCURRENT"}
      [] i = 3 -> {"BLOCKED_OPEN_RISK"}
      [] i = 4 -> {"BLOCKED_DAILY_LOSS"}
      [] i = 5 -> {"BLOCKED_TOTAL_LOSS"}

\* C5: can_add_trade returns the verdict of the first of time restriction,
\* concurrency, open risk, daily-loss projection and total-loss projection
\* that rejects, and ALLOWED or WARNING_NEAR_LIMIT only when none does.
C5_FirstFailingCheck ==
    rm # NoCall =>
        \A risk_usd \in ProposedRisks, check_time \in CheckTimes :
            Verdict(risk_usd, check_time)
                \in VerdictsOf(FirstRejecting(Rejects(risk_usd, check_time)))

\* A time restriction, the concurrency cap, the open-risk cap and both loss
\* projections all reject the same proposal, and the verdict is the time
\* restriction's.
C5_Witness ==
    /\ rm # NoCall
    /\ \E risk_usd \in ProposedRisks, check_time \in CheckTimes :
          LET rej == Rejects(risk_usd, check_time)
          IN  /\ \A i \in 1..5 : rej[i]
              /\ Verdict(risk_usd, check_time) \in VerdictsOf(1)

\* The time, concurrency and open-risk checks let the proposal through.
PastOpenRisk(risk_usd, check_time) ==
    /\ ~TimeRestricted(JudgedAt(check_time))
    /\ OpenCount < 3
    /\ OpenRiskNow + risk_usd <= 300

\* |today's realized P&L - (open risk + proposed risk)|
ProjectedDaily(risk_usd) == Abs(RealizedToday - (OpenRiskNow + risk_usd))

\* C19: past the time, concurrency and open-risk checks, can_add_trade answers
\* BLOCKED_DAILY_LOSS exactly when |today's realized P&L - (open risk +
\* proposed risk)| is above $400, the 10K account's 5% less the 1% buffer; at
\* $400 or less the verdict is that of the total-loss check: BLOCKED_TOTAL_LOSS
\* exactly when drawdown plus open and proposed risk is above $900.
C19_DailyLossProjection ==
    rm # NoCall =>
        \A risk_usd \in ProposedRisks, check_time \in CheckTimes :
            PastOpenRisk(risk_usd, check_time) =>
                /\ Verdict(risk_usd, check_time) = "BLOCKED_DAILY_LOSS"
                      <=> ProjectedDaily(risk_usd) > 400
                /\ ProjectedDaily(risk_usd) <= 400 =>
                      /\ Verdict(risk_usd, check_time) = "BLOCKED_TOTAL_LOSS"
                            <=> (10000 - rm.current_balance) + OpenRiskNow + risk_usd > 900
                      /\ Verdict(risk_usd, check_time)
                            \in {"BLOCKED_TOTAL_LOSS", "WARNING_NEAR_LIMIT", "ALLOWED"}

\* C19 witness: after a loss today a proposal that brings the projection to
\* exactly $400 gets past the daily check, and a larger one is refused for the
\* daily loss.
C19_Witness ==
    /\ rm # NoCall
    /\ RealizedToday < 0
    /\ \E risk_usd \in ProposedRisks :
          /\ PastOpenRisk(risk_usd, None)
          /\ ProjectedDaily(risk_usd) = 400
          /\ Verdict(risk_usd, None) # "BLOCKED_DAILY_LOSS"
    /\ \E risk_usd \in ProposedRisks :
          /\ PastOpenRisk(risk_usd, None)
          /\ ProjectedDaily(risk_usd) = 500
          /\ Verdict(risk_usd, None) = "BLOCKED_DAILY_LOSS"

\* Drawdown plus open and proposed risk.
ProjectedTotal(risk_usd) == (10000 - rm.current_balance) + OpenRiskNow + risk_usd

\* None of the five rejection checks fires.
PastAllChecks(risk_usd, check_time) ==
    /\ PastOpenRisk(risk_usd, check_time)
    /\ ProjectedDaily(risk_usd) <= 400
    /\ ProjectedTotal(risk_usd) <= 900

\* C20: when no rejection check fires, can_add_trade answers
\* WARNING_NEAR_LIMIT exactly when the projected daily loss is above 70% of
\* $400 or the projected total loss is above 70% of $900, and ALLOWED
\* otherwise; activate_trade then records the trade in the Risk Manager and in
\* ACTIVE_TRADES and create_signal_from_scan approves the signal, for either
\* verdict alike, and neither does so for any other verdict.
C20_WarningAdmits ==
    rm # NoCall =>
        /\ \A risk_usd \in ProposedRisks, check_time \in CheckTimes :
              PastAllChecks(risk_usd, check_time) =>
                  Verdict(risk_usd, check_time) =
                      IF \/ ProjectedDaily(risk_usd) * 10 > 7 * 400
                         \/ ProjectedTotal(risk_usd) * 10 > 7 * 900
                      THEN "WARNING_NEAR_LIMIT" ELSE "ALLOWED"
        /\ \A risk_usd \in ProposedRisks, trade_key \in TradeIds \ DOMAIN rm.open_trades :
              LET admitted == Verdict(risk_usd, None) \in {"ALLOWED", "WARNING_NEAR_LIMIT"}
                  a == activate_trade(ACTIVE_TRADES, rm, Proposal(trade_key, risk_usd), clock)
                  g == create_signal_from_scan(rm, risk_usd, TRUE, clock)
              IN  /\ a.success <=> admitted
                  /\ admitted =>
                        /\ DOMAIN a.rm.open_trades = DOMAIN rm.open_trades \cup {trade_key}
                        /\ a.rm.open_trades[trade_key].risk_usd = risk_usd
                        /\ trade_key \in Keys(a.active)
                  /\ ~admitted =>
                        /\ a.rm.open_trades = rm.open_trades
                        /\ a.active = ACTIVE_TRADES
                  /\ g.valid <=> admitted
                  /\ g.status = IF admitted THEN "approved" ELSE "rejected"

\* C20 witness: with nothing lost today and the account $900 down, a proposal
\* is passed with a warning on the total projection alone, and activate_trade
\* opens it.
C20_Witness ==
    /\ rm # NoCall
    /\ \E risk_usd \in ProposedRisks, trade_key \in TradeIds \ DOMAIN rm.open_trades :
          /\ PastAllChecks(risk_usd, None)
          /\ ProjectedDaily(risk_usd) * 10 <= 7 * 400
          /\ Verdict(risk_usd, None) = "WARNING_NEAR_LIMIT"
          /\ activate_trade(ACTIVE_TRADES, rm, Proposal(trade_key, risk_usd), clock).success
    /\ \E risk_usd \in ProposedRisks :
          /\ PastAllChecks(risk_usd, None)
          /\ ProjectedTotal(risk_usd) = 630
          /\ Verdict(risk_usd, None) = "ALLOWED"

---------------------------------------------------------------------------
\* The DailyPnL record of a day, a day without a record counting as one with
\* nothing in it.
DayRecord(r, d) == IF d \in DOMAIN r.daily_pnl THEN r.daily_pnl[d] ELSE NewDailyPnL

\* Moments of the week a call may be judged at: the wall clock (None), Monday
\* at 00:00, 01:59 and 02:00, Friday at 19:59, 20:00 and 23:59, Saturday
\* 00:00, and the Monday 01:00 and Friday 20:00 of the week after.
WeekTimes ==
    {None, At(0, 0, 0), At(0, 1, 59), At(0, 2, 0), At(4, 19, 59), At(4, 20, 0),
     At(4, 23, 59), At(5, 0, 0), At(7, 1, 0), At(11, 20, 0)}

\* Day of the week (Monday is 0) and minute of the day of a moment.
DayOfWeek(now) == (now \div 1440) % 7
MinuteOfDay(now) == now % 1440

\* C21: whatever the Risk Manager holds and whatever risk is proposed,
\* can_add_trade answers BLOCKED_FRIDAY_CUTOFF when it is judged on a Friday
\* at or after 20:00 and BLOCKED_MONDAY_COOLDOWN when it is judged on a Monday
\* before 02:00, also where a risk check would have rejected the trade.
C21_TimeOfWeekRestrictions ==
    rm # NoCall =>
        \A risk_usd \in ProposedRisks, check_time \in WeekTimes :
            LET now == JudgedAt(check_time)
            IN  /\ (DayOfWeek(now) = 4 /\ MinuteOfDay(now) >= 20 * 60)
                       => Verdict(risk_usd, check_time) = "BLOCKED_FRIDAY_CUTOFF"
                /\ (DayOfWeek(now) = 0 /\ MinuteOfDay(now) < 2 * 60)
                       => Verdict(risk_usd, check_time) = "BLOCKED_MONDAY_COOLDOWN"

\* Three trades are open, so that every proposal fails the concurrency check,
\* a news event is registered, and a proposal of the whole open-risk cap is
\* answered with the Friday cutoff at 20:00 sharp and with the Monday cooldown
\* at 01:59.
C21_Witness ==
    /\ rm # NoCall
    /\ OpenCount = 3
    /\ Len(rm.news_events) > 0
    /\ Verdict(300, None) \in {"BLOCKED_CONCURRENT", "BLOCKED_NEWS_EVENT"}
    /\ Verdict(300, At(4, 20, 0)) = "BLOCKED_FRIDAY_CUTOFF"
    /\ Verdict(300, At(0, 1, 59)) = "BLOCKED_MONDAY_COOLDOWN"

\* The verdicts of RiskCheckResult.
RiskCheckResults ==
    {"ALLOWED", "BLOCKED_DAILY_LOSS", "BLOCKED_TOTAL_LOSS", "BLOCKED_OPEN_RISK",
     "BLOCKED_CONCURRENT", "BLOCKED_FRIDAY_CUTOFF", "BLOCKED_MONDAY_COOLDOWN",
     "BLOCKED_NEWS_EVENT", "WARNING_NEAR_LIMIT"}

\* The manager as can_add_trade(risk_usd, check_time) leaves it.
After(risk_usd, check_time) ==
    can_add_trade(Profile, rm, risk_usd, check_time, clock).rm

\* C24: can_add_trade is a query: for every state of the manager, every
\* proposed risk and every time it returns a verdict and leaves the open
\* trades, the closed history, the balances and the daily P&L map, the set of
\* its day keys included, as they were.
C24_CanAddTradeIsPure ==
    rm # NoCall =>
        \A risk_usd \in ProposedRisks, check_time \in WeekTimes :
            /\ Verdict(risk_usd, check_time) \in RiskCheckResults
            /\ After(risk_usd, check_time).open_trades = rm.open_trades
            /\ After(risk_usd, check_time).closed_trades = rm.closed_trades
            /\ After(risk_usd, check_time).current_balance = rm.current_balance
            /\ After(risk_usd, check_time).peak_balance = rm.peak_balance
            /\ DOMAIN After(risk_usd, check_time).daily_pnl = DOMAIN rm.daily_pnl
            /\ After(risk_usd, check_time).daily_pnl = rm.daily_pnl

\* What the code keeps of C24: the call changes nothing but the daily P&L map,
\* where it leaves every record as it was and may add a record with nothing in
\* it for the wall clock's day.
C24_AddsAnEmptyDayAtMost ==
    rm # NoCall =>
        \A risk_usd \in ProposedRisks, check_time \in WeekTimes :
            LET after == After(risk_usd, check_time)
            IN  /\ Verdict(risk_usd, check_time) \in RiskCheckResults
                /\ [after EXCEPT !.daily_pnl = rm.daily_pnl] = rm
                /\ DOMAIN after.daily_pnl \subseteq DOMAIN rm.daily_pnl \cup {DateOf(clock)}
                /\ \A d \in DOMAIN after.daily_pnl : after.daily_pnl[d] = DayRecord(rm, d)

\* C27: whatever came before it, reset() leaves the manager as __init__ does:
\* current and peak balance at the profile's starting balance, phase 1 with
\* its start balance at the starting balance, and no open trade, closed trade,
\* daily record or news event; so can_add_trade answers after it as it
\* answers a manager just constructed.
C27_ResetRestoresInitialState ==
    rm # NoCall =>
        /\ reset(rm).current_balance = Profile.starting_balance
        /\ reset(rm).peak_balance = Profile.starting_balance
        /\ reset(rm).current_phase = 1
        /\ reset(rm).phase_start_balance = Profile.starting_balance
        /\ reset(rm).open_trades = <<>>
        /\ reset(rm).closed_trades = <<>>
        /\ reset(rm).daily_pnl = <<>>
        /\ reset(rm).news_events = <<>>
        /\ \A risk_usd \in ProposedRisks, check_time \in WeekTimes :
               can_add_trade(Profile, reset(rm), risk_usd, check_time, clock).result
                   = can_add_trade(Profile, NewRiskManager(Profile), risk_usd,
                                   check_time, clock).result

\* What the code keeps of C27: reset() leaves the manager as __init__ does but
\* for the news events, which stay registered.
C27_ResetKeepsNewsEvents ==
    rm # NoCall =>
        reset(rm) = [NewRiskManager(Profile) EXCEPT !.news_events = rm.news_events]

\* The projected worst-case result of the day: today's realized P&L less the
\* open risk and the proposed risk.
ProjectedDayResult(risk_usd) == RealizedToday - (OpenRiskNow + risk_usd)

\* C35: can_add_trade answers BLOCKED_DAILY_LOSS only where the projected
\* worst-case result of the day is a loss above $400, the safe daily limit of
\* the 10K account; where the projected result is zero or a profit, however
\* large, the verdict is never BLOCKED_DAILY_LOSS.
C35_ProfitNeverBlocks ==
    rm # NoCall =>
        \A risk_usd \in ProposedRisks, check_time \in CheckTimes :
            /\ Verdict(risk_usd, check_time) = "BLOCKED_DAILY_LOSS"
                  => ProjectedDayResult(risk_usd) < -400
            /\ ProjectedDayResult(risk_usd) >= 0
                  => Verdict(risk_usd, check_time) # "BLOCKED_DAILY_LOSS"

\* What the code keeps of C35: the verdict is BLOCKED_DAILY_LOSS only where
\* the projected result of the day is more than $400 away from zero, on
\* either side, and a projected profit of $400 or less never blocks.
C35_BlocksOnDistanceFromZero ==
    rm # NoCall =>
        \A risk_usd \in ProposedRisks, check_time \in CheckTimes :
            /\ Verdict(risk_usd, check_time) = "BLOCKED_DAILY_LOSS"
                  => Abs(ProjectedDayResult(risk_usd)) > 400
            /\ ProjectedDayResult(risk_usd) \in 0..400
                  => Verdict(risk_usd, check_time) # "BLOCKED_DAILY_LOSS"

(* Claims about the news blackout, checked under SpecNews *)

\* The check_time a call may carry: none (the wall clock is used), and the
\* minutes at and next to the bounds of the blackout windows of the three
\* events.
BlackoutTimes ==
    {None, At(0, 9, 57), At(0, 9, 58), At(0, 10, 0), At(0, 10, 2), At(0, 10, 3),
     At(1, 9, 58), At(1, 10, 2), At(1, 10, 3), At(1, 10, 7), At(1, 10, 8)}

\* now lies within two minutes of the event, bounds included.
InWindow(event_time, now) == event_time - 2 <= now /\ now <= event_time + 2

\* now is a Friday from 20:00 or a Monday before 02:00.
FridayOrMonday(now) ==
    \/ DayOfWeek(now) = 4 /\ MinuteOfDay(now) >= 20 * 60
    \/ DayOfWeek(now) = 0 /\ MinuteOfDay(now) < 2 * 60

\* C22: once add_news_event has registered an event, as the latest of the
\* registrations so far or as an earlier one that the manager holds, a
\* can_add_trade judged within two minutes of the event's time (bounds
\* included), and not on a Friday from 20:00 or a Monday before 02:00, answers
\* BLOCKED_NEWS_EVENT.
C22_NewsBlackout ==
    rm # NoCall =>
        \A event_time \in NewsEventTimes, check_time \in BlackoutTimes :
            LET registered == add_news_event(rm, event_time, clock)
                now == JudgedAt(check_time)
                events == {event_time} \cup
                              {rm.news_events[i] : i \in DOMAIN rm.news_events}
            IN  ((\E e \in events : InWindow(e, now)) /\ ~FridayOrMonday(now))
                    => can_add_trade(Profile, registered, 100, check_time, clock).result
                           = "BLOCKED_NEWS_EVENT"

\* The part of C22 the code keeps: a can_add_trade judged within two minutes
\* of an event the manager holds, and not caught by the Friday or Monday
\* rule, answers BLOCKED_NEWS_EVENT, wherever the event stands in the list.
C22_HeldEventsBlock ==
    rm # NoCall =>
        \A i \in DOMAIN rm.news_events, check_time \in BlackoutTimes :
            (InWindow(rm.news_events[i], JudgedAt(check_time))
                    /\ ~FridayOrMonday(JudgedAt(check_time)))
                => Verdict(100, check_time) = "BLOCKED_NEWS_EVENT"

(* Claims about the Risk Manager's books, checked under SpecLedger *)

\* The pnl_usd of the first k trades of the closed history, summed.
RECURSIVE ClosedPnl(_, _)
ClosedPnl(history, k) ==
    IF k = 0 THEN 0 ELSE history[k].pnl_usd + ClosedPnl(history, k - 1)

\* The realized P&L of the daily records of these days, summed.
RECURSIVE RealizedOver(_, _)
RealizedOver(daily, days) ==
    IF days = {} THEN 0
    ELSE LET d == CHOOSE x \in days : TRUE
         IN  daily[d].realized_pnl_usd + RealizedOver(daily, days \ {d})

\* The balance after the first k closures of the history.
BalanceAt(k) == rm.starting_balance + ClosedPnl(rm.closed_trades, k)

\* C23: after any sequence of open_trade and close_trade calls the current
\* balance is the starting balance plus the pnl_usd of the closed history,
\* the peak balance is the highest balance there has been (so at least the
\* current and the starting balance), and the realized P&L of all daily
\* records adds up to current balance minus starting balance.
C23_BalanceConservation ==
    rm # NoCall =>
        LET n == Len(rm.closed_trades)
        IN  /\ rm.current_balance = BalanceAt(n)
            /\ \E k \in 0..n : rm.peak_balance = BalanceAt(k)
            /\ \A k \in 0..n : rm.peak_balance >= BalanceAt(k)
            /\ rm.peak_balance >= rm.current_balance
            /\ rm.peak_balance >= rm.starting_balance
            /\ RealizedOver(rm.daily_pnl, DOMAIN rm.daily_pnl)
                   = rm.current_balance - rm.starting_balance

\* Two trades were closed on different days, a win and then a loss: the peak
\* stands above the current balance, which stands below the starting one.
C23_Witness ==
    /\ rm # NoCall
    /\ Len(rm.closed_trades) = 2
    /\ Cardinality({d \in DOMAIN rm.daily_pnl : rm.daily_pnl[d].trades_closed > 0}) = 2
    /\ rm.peak_balance > rm.starting_balance
    /\ rm.current_balance < rm.starting_balance

\* The ids with a record in open_trades.
OpenIds == DOMAIN rm.open_trades

\* A step that lengthens the closed history: the one record added.
Closes == Len(rm'.closed_trades) = Len(rm.closed_trades) + 1
ClosedNow == rm'.closed_trades[Len(rm'.closed_trades)]

\* C25: close_trade on an id that is not open returns None and leaves the
\* manager as it was; a close that succeeds takes the record of an open id out
\* of open_trades and appends it, once and with is_open false, to
\* closed_trades, which otherwise never changes; and no record is in both
\* collections.
C25_OpenToClosedOnce ==
    /\ [](rm # NoCall =>
            /\ \A trade_id \in TradeIds \ OpenIds, exit_datetime \in ExitTimes,
                        pnl_usd \in PnlChoices(100) :
                   close_trade(rm, trade_id, 0, pnl_usd, exit_datetime, clock)
                       = [result |-> NoCall, rm |-> rm]
            /\ \A trade_id \in OpenIds :
                   /\ rm.open_trades[trade_id].is_open
                   /\ \A i \in DOMAIN rm.closed_trades :
                          /\ ~rm.closed_trades[i].is_open
                          /\ rm.closed_trades[i] # rm.open_trades[trade_id])
    /\ [][rm # NoCall =>
            \/ rm'.closed_trades = rm.closed_trades
            \/ /\ Closes
               /\ rm'.closed_trades = Append(rm.closed_trades, ClosedNow)
               /\ ~ClosedNow.is_open
               /\ ClosedNow.trade_id \in OpenIds
               /\ ClosedNow.trade_id \notin DOMAIN rm'.open_trades
               /\ rm'.open_trades = Pop(rm.open_trades, ClosedNow.trade_id)
               /\ ClosedNow = [rm.open_trades[ClosedNow.trade_id] EXCEPT
                                  !.is_open = FALSE,
                                  !.exit_price = ClosedNow.exit_price,
                                  !.exit_datetime = ClosedNow.exit_datetime,
                                  !.pnl_usd = ClosedNow.pnl_usd]]_vars

\* A trade was closed, opened again under the same id, and another id was
\* never opened: its id stands in both collections, with two records.
C25_Witness ==
    /\ rm # NoCall
    /\ Len(rm.closed_trades) = 2
    /\ \E i \in DOMAIN rm.closed_trades : rm.closed_trades[i].trade_id \in OpenIds
    /\ TradeIds \ (OpenIds \cup {rm.closed_trades[i].trade_id : i \in DOMAIN rm.closed_trades})
           # {}

\* Over one step, the record of day dated has taken the closure (when the step
\* closes a trade) or the opening, and no other day's record has changed.
DayRecordsStep(dated) ==
    \A d \in DOMAIN rm.daily_pnl \cup DOMAIN rm'.daily_pnl \cup {dated} :
        IF Closes
        THEN DayRecord(rm', d) =
                 IF d = dated
                 THEN [DayRecord(rm, d) EXCEPT
                          !.realized_pnl_usd = @ + ClosedNow.pnl_usd,
                          !.trades_closed = @ + 1]
                 ELSE DayRecord(rm, d)
        ELSE \/ DayRecord(rm', d) = DayRecord(rm, d)
             \/ /\ d = DateOf(clock)
                /\ DayRecord(rm', d) = [DayRecord(rm, d) EXCEPT !.trades_opened = @ + 1]

\* C26: a close_trade adds its pnl_usd to, and counts one more closed trade
\* in, the record of the day the closure is dated (the date of the record's
\* exit_datetime, which is the one given or else the time of the call); an
\* open_trade counts one more opened trade in the record of the day of the
\* call; and the record of no other day changes.
C26_DayRecordsByDate ==
    [][rm # NoCall =>
          IF Closes
          THEN DayRecordsStep(DateOf(ClosedNow.exit_datetime))
          ELSE DayRecordsStep(DateOf(clock))]_vars

\* What the code does: closures and openings alike go to the record of the
\* wall clock's day at the time of the call.
C26_DayRecordsByClock ==
    [][rm # NoCall => DayRecordsStep(DateOf(clock))]_vars

(* Claims about the admission protocol, checked under SpecProtocol *)

\* What the account has lost since the start.
DrawdownNow == rm.starting_balance - rm.current_balance

\* C32: under the admission protocol the drawdown plus the open risk never
\* exceeds $900, the 10K account's 10% total-loss limit less the 1% buffer,
\* and so the drawdown never reaches the $1000 limit itself.
C32_TotalLossSafety ==
    rm # NoCall =>
        /\ DrawdownNow + OpenRiskNow <= 900
        /\ DrawdownNow < 1000

\* C32 witness: after four losing closes over two days the drawdown is $800,
\* a trade of $100 is open on the third day, which brings the sum to exactly
\* $900, and a further trade of $100 is refused for the total loss.
C32_Witness ==
    /\ rm # NoCall
    /\ DrawdownNow = 800
    /\ OpenRiskNow = 100
    /\ RealizedToday = 0
    /\ Verdict(100, None) = "BLOCKED_TOTAL_LOSS"

\* C33: under the admission protocol today's realized P&L less the open risk
\* never falls below -$400, the 10K account's 5% daily-loss limit less the 1%
\* buffer, on the day a trade was admitted as on a day that began with trades
\* still open; so the realized loss of a day never reaches the $500 limit.
C33_DailyLossSafety ==
    rm # NoCall =>
        /\ RealizedToday - OpenRiskNow >= -400
        /\ \A d \in DOMAIN rm.daily_pnl : rm.daily_pnl[d].realized_pnl_usd > -500

\* C33 witness: a day that began with a trade still open from the day before
\* has lost $300 and has $100 at risk, exactly the $400, and a further trade
\* of $100 is refused for the daily loss.
C33_Witness ==
    /\ rm # NoCall
    /\ DateOf(clock) >= 1
    /\ RealizedToday = -300
    /\ OpenRiskNow = 100
    /\ rm.daily_pnl[DateOf(clock)].trades_opened = 1
    /\ rm.daily_pnl[DateOf(clock)].trades_closed = 1
    /\ OpenCount = 1
    /\ Verdict(100, None) = "BLOCKED_DAILY_LOSS"

\* A trade closes in this step, and its risk.
SettledRisk ==
    LET ids == DOMAIN rm.open_trades \ DOMAIN rm'.open_trades
    IN  IF ids = {} THEN 0 ELSE rm.open_trades[CHOOSE k \in ids : TRUE].risk_usd

---------------------------------------------------------------------------
(* Claims about backtest and live accounting, checked under SpecBooks *)

\* What the simulator holds for a day.
SimDayPnl(d) == IF d \in DOMAIN ph.daily_pnl THEN ph.daily_pnl[d] ELSE 0

\* The simulator's loop and the RiskManager hold the same balance, the same
\* realized P&L for every day, and every breach of the daily or the total
\* limit that the simulator's tests find in its figures they find in the
\* RiskManager's.
BooksAgree ==
    /\ rm.current_balance = ph.balance
    /\ \A d \in DOMAIN ph.daily_pnl \cup DOMAIN rm.daily_pnl :
           /\ DayRecord(rm, d).realized_pnl_usd = SimDayPnl(d)
           /\ DailyLossTest(SimDayPnl(d), 10000, 500)
                  => DailyLossTest(DayRecord(rm, d).realized_pnl_usd, 10000, 500)
    /\ TotalLossTest(10000 - ph.balance, 10000, 1000)
           => TotalLossTest(get_total_drawdown_usd(rm), 10000, 1000)

\* C28: after every trade of one chronological sequence of closed trades,
\* reported with the same P&L and closing day to simulate_challenge_phase and
\* to the RiskManager's close_trade, the two hold the same running balance and
\* the same realized P&L per day, so that a loss-limit breach in the
\* simulator's figures is one in the RiskManager's.
C28_BacktestLiveConsistency ==
    (ph # NoCall /\ ph.pc = "loop" /\ rm # NoCall) => BooksAgree

\* Every closure the RiskManager has counted for a day is dated that day.
FiledOnTheDay ==
    \A d \in Days :
        DayRecord(rm, d).trades_closed =
            Cardinality({i \in DOMAIN rm.closed_trades :
                            DateOf(rm.closed_trades[i].exit_datetime) = d})

\* What the code keeps of C28: the balances always agree, and so do the days
\* as long as every closure was reported on the day it is dated.
C28_AgreeWhenReportedOnTheDay ==
    (ph # NoCall /\ ph.pc = "loop" /\ rm # NoCall) =>
        /\ rm.current_balance = ph.balance
        /\ FiledOnTheDay => BooksAgree

(* Claims about the challenge simulators, checked under SpecChallenge *)

\* The dollars of the first k trades of a list that fall on day d (on any day
\* when d is 0), at $100 risked per trade: rr is in hundredths of R.
RECURSIVE SumDollars(_, _, _)
SumDollars(list, k, d) ==
    IF k = 0 THEN 0
    ELSE (IF d = 0 \/ TradeDate(list[k]) = d THEN list[k].rr ELSE 0)
         + SumDollars(list, k - 1, d)

BalanceAfter(list, k) == 10000 + SumDollars(list, k, 0)
DayPnlAfter(list, k) == SumDollars(list, k, TradeDate(list[k]))

\* After trade k: the day's loss is beyond $500; the account is down by more
\* than $1,000.
DailyBreachAt(list, k) == DayPnlAfter(list, k) < -500
TotalBreachAt(list, k) == 10000 - BalanceAfter(list, k) > 1000

NoBreach(list, n) ==
    \A k \in 1..n : ~DailyBreachAt(list, k) /\ ~TotalBreachAt(list, k)

\* Days of the first n trades whose accumulated P&L is at least $50.
ProfitableDayCount(list, n) ==
    Cardinality({d \in Days : /\ \E k \in 1..n : TradeDate(list[k]) = d
                              /\ SumDollars(list, n, d) >= 50})

\* C7: for a non-empty trade list simulate_challenge_phase reports passed
\* exactly when the balance reached $10,800 after some trade, at least three
\* days made $50 or more, and no daily or total violation was counted; a list
\* whose R-multiples sum to 8.33 or more with no violation and three
\* profitable days passes.
C7_PhasePassedIff ==
    (ph # NoCall /\ ph.pc = "done" /\ trades # <<>>) =>
        LET n == Len(trades)
            reached == \E k \in 1..n : BalanceAfter(trades, k) >= 10800
            days == ProfitableDayCount(trades, n) >= 3
            clean == NoBreach(trades, n)
        IN  /\ ph.passed <=> (reached /\ days /\ clean)
            /\ (SumDollars(trades, n, 0) >= 833 /\ days /\ clean) => ph.passed

\* A list summing to 8.33 R or more over three profitable days without a
\* violation has been simulated and passed.
C7_Witness ==
    /\ ph # NoCall
    /\ ph.pc = "done"
    /\ ph.passed
    /\ SumDollars(trades, Len(trades), 0) >= 833
    /\ ProfitableDayCount(trades, Len(trades)) >= 3

\* C8: simulate_challenge_for_month reports a phase passed only if its target
\* was reached, at least min_profitable_days (three) days met the minimum
\* profit per day, and no daily or total violation was counted.
C8_MonthPassedOnlyIf ==
    (mo # NoCall /\ mo.pc = "done" /\ trades # <<>>) =>
        LET list == mo.all_trades
            n == mo.i
            days == ProfitableDayCount(list, n) >= 3
            clean == NoBreach(list, n)
        IN  /\ mo.result.phase1_passed =>
                /\ \E k \in 1..n : BalanceAfter(list, k) >= 10800
                /\ days
                /\ clean
            /\ mo.result.phase2_passed =>
                /\ mo.result.phase1_passed
                /\ days
                /\ clean
            /\ mo.result.both_passed =>
                mo.result.phase1_passed /\ mo.result.phase2_passed

\* C9: a trade raises the daily-violation counter by one exactly when its
\* day's accumulated P&L is negative and beyond $500 in magnitude, in
\* simulate_challenge_phase and in simulate_challenge_for_month alike; a
\* day's loss of $500 or less adds nothing; losses of $300 then $250 on one
\* day leave the counter at 0 after the first and at 1 after the second.
C9_DailyViolationCount ==
    /\ [][(ph # NoCall /\ ph.pc = "loop" /\ ph'.pc = "loop" /\ ph'.i = ph.i + 1) =>
            ph'.daily_loss_violations =
                ph.daily_loss_violations
                + (IF DayPnlAfter(trades, ph'.i) < 0 /\ -DayPnlAfter(trades, ph'.i) > 500
                   THEN 1 ELSE 0)]_vars
    /\ [][(mo # NoCall /\ mo.pc = "loop" /\ mo'.i = mo.i + 1) =>
            mo'.result.daily_loss_violations =
                mo.result.daily_loss_violations
                + (IF DayPnlAfter(mo.all_trades, mo'.i) < 0
                      /\ -DayPnlAfter(mo.all_trades, mo'.i) > 500
                   THEN 1 ELSE 0)]_vars
    /\ [](  (/\ ph # NoCall /\ ph.pc = "loop"
             /\ Len(trades) >= 2
             /\ trades[1].rr = -300 /\ trades[2].rr = -250
             /\ TradeDate(trades[1]) = TradeDate(trades[2]))
          => /\ ph.i = 1 => ph.daily_loss_violations = 0
             /\ ph.i = 2 => ph.daily_loss_violations = 1)

\* The second of two same-day losses of $300 and $250 has been processed by
\* both simulators and each counter stands at exactly 1.
C9_Witness ==
    /\ ph # NoCall /\ mo # NoCall
    /\ Len(trades) = 2
    /\ trades[1].rr = -300 /\ trades[2].rr = -250
    /\ TradeDate(trades[1]) = TradeDate(trades[2])
    /\ ph.pc = "done" /\ ph.daily_loss_violations = 1
    /\ mo.pc = "loop" /\ mo.i = 2 /\ mo.result.daily_loss_violations = 1

\* The number of distinct dates among the first k trades of a list.
DatesSeen(list, k) == Cardinality({TradeDate(list[j]) : j \in 1..k})

FirstReach(list, n) ==
    CHOOSE k \in 1..n : /\ BalanceAfter(list, k) >= 10800
                        /\ \A j \in 1..(k - 1) : BalanceAfter(list, j) < 10800

\* C15: in simulate_challenge_for_month phase 2 is marked passed only by a
\* trade after the one that passed phase 1, exactly when the balance stands 5%
\* or more above the balance at which phase 1 was marked passed, and its days
\* are the trade dates first seen after that trade; phase 2 is never marked
\* passed while phase 1 is not.
C15_SequentialPhases ==
    /\ [](mo # NoCall /\ mo.pc \in {"loop", "break", "done"} =>
            /\ mo.result.phase2_passed => mo.result.phase1_passed
            /\ mo.pc \in {"loop", "break"} =>
                  /\ mo.current_phase = 2 <=> mo.result.phase1_passed
                  /\ mo.current_phase = 2 =>
                        LET k1 == FirstReach(mo.all_trades, mo.i)
                        IN  /\ mo.phase2_start_balance = BalanceAfter(mo.all_trades, k1)
                            /\ mo.phase1_complete_day = DatesSeen(mo.all_trades, k1))
    /\ [][(mo # NoCall /\ mo.pc = "loop" /\ mo'.pc \in {"loop", "break"}) =>
            /\ mo'.result.phase2_passed <=>
                  /\ mo.current_phase = 2
                  /\ (mo'.balance - mo.phase2_start_balance) * 100
                        >= 5 * mo.phase2_start_balance
            /\ mo'.result.phase2_passed =>
                  LET k1 == FirstReach(mo.all_trades, mo.i)
                  IN  /\ k1 < mo'.i
                      /\ mo'.result.phase2_days =
                            DatesSeen(mo.all_trades, mo'.i) - DatesSeen(mo.all_trades, k1)]_vars

\* C15 witness: phase 1 was passed at $10,800 and a later trade on a later day
\* passed phase 2 from there, short of the $11,340 it took, not of $10,500.
C15_Witness ==
    /\ mo # NoCall
    /\ mo.pc = "done"
    /\ mo.result.phase1_passed
    /\ mo.result.phase2_passed
    /\ mo.result.phase2_days = 1
    /\ mo.i = 3
    /\ BalanceAfter(mo.all_trades, 2) >= 10500
    /\ BalanceAfter(mo.all_trades, 2) < 11340
    /\ FirstReach(mo.all_trades, 3) = 1

\* The reason the priority gives a result with these counters: a daily
\* violation, else a total violation, else too few profitable days, else the
\* target not reached; no failure reason for a passed result.
ReasonDue(passed, daily, total, profitable_days) ==
    IF passed THEN "none"
    ELSE IF daily > 0 THEN "daily"
    ELSE IF total > 0 THEN "total"
    ELSE IF profitable_days < 3 THEN "days"
    ELSE "target"

\* The reason a result reports, by its kind.
ReasonKind(reason) ==
    CASE reason \in {"", "Passed"} -> "none"
      [] reason \in {"Failed: daily loss violations", "Daily loss limit breached"} -> "daily"
      [] reason \in {"Failed: total loss violations", "Total loss limit breached"} -> "total"
      [] reason = "Failed: profitable days" -> "days"
      [] reason \in {"Did not reach target", "Phase 1 target not reached",
                     "Phase 2 target not reached after Phase 1"} -> "target"
      [] OTHER -> reason

\* C16: a simulation over a non-empty trade list reports the one reason the
\* priority gives: a daily violation before a total one, else too few
\* profitable days, else the target not reached, and no failure reason when it
\* passed; this for simulate_challenge_phase and for simulate_challenge_for_month
\* (an empty list returns early with a reason of its own).
C16_FailureReasonPriority ==
    /\ (ph # NoCall /\ ph.pc = "done" /\ trades # <<>>) =>
          ReasonKind(ph.reason) =
             ReasonDue(ph.passed, ph.daily_loss_violations, ph.total_loss_violations,
                       ph.profitable_days)
    /\ (mo # NoCall /\ mo.pc = "done" /\ trades # <<>>) =>
          ReasonKind(mo.result.failure_reason) =
             ReasonDue(mo.result.both_passed, mo.result.daily_loss_violations,
                       mo.result.total_loss_violations, mo.result.profitable_days)

\* The part of C16 that is about simulate_challenge_phase.
C16_PhaseReasonPriority ==
    (ph # NoCall /\ ph.pc = "done" /\ trades # <<>>) =>
          ReasonKind(ph.reason) =
             ReasonDue(ph.passed, ph.daily_loss_violations, ph.total_loss_violations,
                       ph.profitable_days)

\* C17: whatever order the trade list is supplied in, the trades a simulator
\* has processed so far are in non-decreasing order of exit date (entry date
\* when the exit date is absent); this for simulate_challenge_phase and for
\* simulate_challenge_for_month, which processes the trades it was given and
\* no others.
C17_ProcessedInDateOrder ==
    /\ (ph # NoCall /\ ph.pc = "loop") => InDateOrder(trades, ph.i)
    /\ (mo # NoCall /\ mo.pc \in {"loop", "break"}) =>
          /\ InDateOrder(mo.all_trades, mo.i)
          /\ SameTrades(mo.all_trades, trades)

\* The part of C17 that is about simulate_challenge_for_month.
C17_MonthInDateOrder ==
    (mo # NoCall /\ mo.pc \in {"loop", "break"}) =>
          /\ InDateOrder(mo.all_trades, Len(mo.all_trades))
          /\ SameTrades(mo.all_trades, trades)

---------------------------------------------------------------------------
(* Claims about the end of a month's run, checked under SpecTail *)

\* Trade j of a list reaches the phase-2 target: phase 1 was passed at an
\* earlier trade, and the balance is 5% or more above what it was then.
Phase2At(list, j) ==
    /\ \E k \in 1..(j - 1) : BalanceAfter(list, k) >= 10800
    /\ LET k1 == FirstReach(list, j - 1)
       IN  (BalanceAfter(list, j) - BalanceAfter(list, k1)) * 100
              >= 5 * BalanceAfter(list, k1)

\* The trade the loop stops at: the first to reach the phase-2 target, or the
\* last of the list.
StopIndex(list) ==
    IF \E j \in 1..Len(list) : Phase2At(list, j)
    THEN CHOOSE j \in 1..Len(list) :
            Phase2At(list, j) /\ \A i \in 1..(j - 1) : ~Phase2At(list, i)
    ELSE Len(list)

\* The largest of a day's loss after each of the first k trades, and of the
\* account's drawdown, in basis points of the $10,000.
MaxOf(S) == IF S = {} THEN 0 ELSE CHOOSE x \in S : \A y \in S : y <= x
WorstDayLoss(list, k) ==
    MaxOf({IF DayPnlAfter(list, j) < 0 THEN -DayPnlAfter(list, j) ELSE 0 : j \in 1..k})
WorstDrawdown(list, k) ==
    MaxOf({IF BalanceAfter(list, j) < 10000 THEN 10000 - BalanceAfter(list, j) ELSE 0 :
              j \in 1..k})

\* C37: simulate_challenge_for_month stops at the first trade that reaches the
\* phase-2 target, and its result is that of the trades up to that one: the
\* balance and the total profit, the daily buckets and the days counted from
\* them, the drawdown maxima, the violation counters and the verdicts are
\* what the sorted trades up to the stop give, whatever trades are sorted
\* after it.
C37_StopsAtPhase2Target ==
    (mo # NoCall /\ mo.pc = "done" /\ trades # <<>>) =>
        LET list == mo.all_trades
            k == StopIndex(list)
            daily == Cardinality({j \in 1..k : DailyBreachAt(list, j)})
            total == Cardinality({j \in 1..k : TotalBreachAt(list, j)})
            one == \E j \in 1..k : BalanceAfter(list, j) >= 10800
            two == Phase2At(list, k)
        IN  /\ mo.i = k
            /\ mo.balance = BalanceAfter(list, k)
            /\ mo.result.total_profit_usd = BalanceAfter(list, k) - 10000
            /\ DOMAIN mo.daily_pnl = {TradeDate(list[j]) : j \in 1..k}
            /\ \A d \in DOMAIN mo.daily_pnl : mo.daily_pnl[d] = SumDollars(list, k, d)
            /\ mo.result.trading_days = DatesSeen(list, k)
            /\ mo.result.profitable_days = ProfitableDayCount(list, k)
            /\ mo.result.max_daily_drawdown_pct = WorstDayLoss(list, k)
            /\ mo.result.max_total_drawdown_pct = WorstDrawdown(list, k)
            /\ mo.result.daily_loss_violations = daily
            /\ mo.result.total_loss_violations = total
            /\ mo.result.phase1_passed <=> (one /\ daily = 0 /\ total = 0)
            /\ mo.result.phase2_passed <=> (two /\ daily = 0 /\ total = 0)
            /\ mo.result.both_passed <=> (two /\ daily = 0 /\ total = 0)

\* C37 witness: both phases are passed at the second trade of three; the third,
\* a loss of $600 on the day after, beyond the daily limit, is left out of the
\* balance, the buckets and the counters.
C37_Witness ==
    /\ mo # NoCall
    /\ mo.pc = "done"
    /\ trades # <<>>
    /\ Len(mo.all_trades) = 3
    /\ mo.i = 2
    /\ mo.result.both_passed
    /\ mo.all_trades[3].rr = -600
    /\ DailyBreachAt(mo.all_trades, 3)
    /\ mo.result.daily_loss_violations = 0
    /\ mo.balance = 11600
    /\ DOMAIN mo.daily_pnl = {1}

---------------------------------------------------------------------------
(* Claims about a month's run over several assets, checked under SpecAssets *)

\* The trades of the first k assets whose backtest returned, tagged with
\* their asset, in the order of the assets.
RECURSIVE TradesOfAssets(_)
TradesOfAssets(k) ==
    IF k = 0 THEN <<>>
    ELSE TradesOfAssets(k - 1) \o
             (IF trades[k].raises THEN <<>>
              ELSE [j \in 1..Len(trades[k].trades) |->
                       WithAsset(trades[k].trades[j], Assets[k])])

\* The run has a next step: an asset to backtest or the end of that loop, a
\* trade to process or the end of that loop.
RunGoesOn ==
    \/ mo.pc = "assets" /\ mo.k <= Len(Assets)
    \/ mo.pc = "loop" /\ mo.i <= Len(mo.all_trades)
    \/ mo.pc = "break"

\* C29: in simulate_challenge_for_month an exception of one asset's backtest
\* skips that asset and no more: the run goes on until it returns a result,
\* and the trades of every asset whose backtest returned, before or after one
\* that raised, are all in the aggregated list, which is the list the phases
\* are evaluated over.
C29_FailingAssetSkipped ==
    mo # NoCall =>
        /\ mo.pc # "done" => RunGoesOn
        /\ mo.pc = "assets" => mo.all_trades = TradesOfAssets(mo.k)
        /\ mo.pc \in {"loop", "break"} =>
               /\ SameTrades(mo.all_trades, TradesOfAssets(Len(Assets)))
               /\ mo.result.trades = mo.all_trades
        /\ mo.pc = "done" =>
               /\ SameTrades(mo.result.trades, TradesOfAssets(Len(Assets)))
               /\ mo.result.total_trades = Len(TradesOfAssets(Len(Assets)))
        /\ (mo.pc = "loop" /\ mo.i = Len(mo.all_trades)) =>
               mo.balance = 10000 + SumDollars(TradesOfAssets(Len(Assets)),
                                               Len(TradesOfAssets(Len(Assets))), 0)

\* The backtest of the second asset raised, those of the first and the third
\* returned trades, and the run has returned a result with all of them.
C29_Witness ==
    /\ mo # NoCall
    /\ mo.pc = "done"
    /\ trades[2].raises
    /\ ~trades[1].raises /\ Len(trades[1].trades) = 2
    /\ ~trades[3].raises /\ Len(trades[3].trades) = 1
    /\ mo.result.total_trades = 3
    /\ \E j \in 1..3 : mo.result.trades[j].asset = "XAU_USD"
    /\ \E j \in 1..3 : mo.result.trades[j].asset = "EUR_USD"

(* Claims about live admission, checked under SpecLive *)

---------------------------------------------------------------------------
(* Claims about live trade tracking, checked under SpecTrack *)

\* check_trade_updates for an active trade at a live price, from this state.
Checked(key, price) ==
    check_trade_update(ACTIVE_TRADES, TRADE_PROGRESS, rm, key, Idea(key), TrackRisk,
                       price, clock)

\* TP1 has been recorded for an active trade.
TP1Recorded(key) ==
    key \in DOMAIN TRADE_PROGRESS /\ TRADE_PROGRESS[key].tp1

\* C38: once TP1 has been recorded for an active trade the stop of later
\* checks is the entry price: a check at a price back at the entry or beyond
\* it closes the trade, and whatever check closes the trade books a realized
\* P&L of zero or more in the Risk Manager, never the loss of risk_usd.
C38_LiveBreakEven ==
    \A key \in Keys(ACTIVE_TRADES), price \in Prices :
        TP1Recorded(key) =>
            /\ Checked(key, price).closed =>
                  LET booked == Checked(key, price).rm.closed_trades
                  IN  booked[Len(booked)].pnl_usd >= 0
            /\ PriceHitsStop([Idea(key) EXCEPT !.stop_loss = Idea(key).entry], price)
                  => Checked(key, price).closed

\* What the code keeps of C38: whatever flags are up, the stop of a check is
\* the stop the trade was activated with.  A price at that stop or beyond
\* closes the trade at a loss of risk_usd, and a price short of it closes the
\* trade only when every target has been hit, at the profit of the targets.
C38_StopStaysWhereItWas ==
    \A key \in Keys(ACTIVE_TRADES), price \in Prices :
        LET c == Checked(key, price)
            booked == c.rm.closed_trades
        IN  IF PriceHitsStop(Idea(key), price)
            THEN /\ c.closed
                 /\ booked[Len(booked)].pnl_usd = -TrackRisk
            ELSE c.closed =>
                    /\ booked[Len(booked)].pnl_usd >= 0
                    /\ \A level \in {Idea(key).tp1, Idea(key).tp2, Idea(key).tp3} \ {None} :
                          \/ PriceHitsLevel(Idea(key), level, price)
                          \/ \E f \in {"tp1", "tp2", "tp3"} :
                                Idea(key)[f] = level /\ TRADE_PROGRESS[key][f]

\* activate_trade for a key, from this state.
Activated(key) == activate_trade(ACTIVE_TRADES, rm, Proposal(key, TrackRisk), clock)

\* C39: after any sequence of activate_trade, close_trade_with_pnl (called by
\* check_trade_updates or directly) and clear_all_trades, the keys of
\* ACTIVE_TRADES are the trade ids of the Risk Manager's open trades, each key
\* once; an activation that is refused leaves both as they were, and the
\* activation of a key that is active is refused.
C39_TablesInStep ==
    /\ Keys(ACTIVE_TRADES) = DOMAIN rm.open_trades
    /\ Cardinality(Keys(ACTIVE_TRADES)) = Len(ACTIVE_TRADES)
    /\ DOMAIN TRADE_PROGRESS = Keys(ACTIVE_TRADES)
    /\ \A key \in TrackKeys :
          /\ key \in Keys(ACTIVE_TRADES) => ~Activated(key).success
          /\ ~Activated(key).success =>
                /\ Activated(key).active = ACTIVE_TRADES
                /\ Activated(key).rm.open_trades = rm.open_trades
          /\ Activated(key).success =>
                /\ Keys(Activated(key).active) = Keys(ACTIVE_TRADES) \cup {key}
                /\ DOMAIN Activated(key).rm.open_trades = Keys(ACTIVE_TRADES) \cup {key}

\* C39 witness: of three trades activated one was closed by a check at its
\* stop; the two others are active and open, the closed one is in neither
\* table, and the activation of an active key is refused.
C39_Witness ==
    /\ Len(ACTIVE_TRADES) = 2
    /\ DOMAIN rm.open_trades = Keys(ACTIVE_TRADES)
    /\ Len(rm.closed_trades) = 1
    /\ rm.closed_trades[1].pnl_usd = -TrackRisk
    /\ rm.closed_trades[1].trade_id \notin Keys(ACTIVE_TRADES)
    /\ OpenedToday = 3
    /\ \A key \in Keys(ACTIVE_TRADES) : Activated(key).message = "already active"

---------------------------------------------------------------------------
(* Claims about the walk-forward replay, checked under SpecReplay *)

Replays == {"A", "B"}

\* Every candle of a slice carries a time, and none later than the cutoff.
NotAfter(slice, cutoff_dt) ==
    \A i \in DOMAIN slice : slice[i].time # None /\ slice[i].time <= cutoff_dt

\* The trades of a replay closed on a bar before the spike, and the entries
\* of its trades opened on a bar before the spike (a daily bar of date d
\* carries time 2d).
ClosedBefore(st, t) == SelectSeq(st.trades, LAMBDA c : 2 * c.exit_date < t)

EntryOf(c) == <<c.direction, c.entry, c.sl, c.tp1, c.tp2, c.tp3, c.entry_date>>

OpenedBefore(st, t) ==
    {EntryOf(st.trades[i]) : i \in {j \in DOMAIN st.trades : 2 * st.trades[j].entry_date < t}}
    \cup (IF st.open_trade # NoTrade /\ 2 * st.open_trade.entry_date < t
          THEN {EntryOf(st.open_trade)} ELSE {})

\* C3: every request made to the strategy holds, for the daily, weekly,
\* monthly and 4-hour series, only candles timed at or before the current
\* bar; a trade closes on a bar only as that bar's own high and low allow;
\* and two replays over feeds that differ in one candle timed T open and close
\* the same trades on the bars before T.
C3_NoLookAhead ==
    /\ [](replay # NoCall =>
            /\ \A r \in Replays :
                 replay[r].request # NoCall =>
                    LET q == replay[r].request
                    IN  /\ NotAfter(q.daily_slice, q.cutoff_dt)
                        /\ NotAfter(q.weekly_slice, q.cutoff_dt)
                        /\ NotAfter(q.monthly_slice, q.cutoff_dt)
                        /\ NotAfter(q.h4_slice, q.cutoff_dt)
            /\ ClosedBefore(replay.A, feed.spike) = ClosedBefore(replay.B, feed.spike)
            /\ OpenedBefore(replay.A, feed.spike) = OpenedBefore(replay.B, feed.spike))
    /\ [][(replay # NoCall /\ replay'.pos = replay.pos + 1) =>
            \A r \in Replays :
                Len(replay'[r].trades) = Len(replay[r].trades) + 1 =>
                    LET c == replay'[r].trades[Len(replay'[r].trades)]
                        b == feed[r].daily[replay.indices[replay.pos]]
                    IN  /\ 2 * c.exit_date = b.time
                        /\ c.exit_reason = "SL" => Breaches(c.direction, c.sl, b)
                        /\ c.exit_reason = "TP1+Trail" => Breaches(c.direction, c.entry, b)]_vars

\* Both replays have run to the end; a trade was opened and closed on bars
\* before the spike, and from the spike on the replays went different ways.
C3_Witness ==
    /\ replay # NoCall
    /\ replay.returned
    /\ ClosedBefore(replay.A, feed.spike) # <<>>
    /\ replay.A.request # NoCall
    /\ replay.A # replay.B


---------------------------------------------------------------------------
(* Claims about one replay of run_backtest, checked under SpecBacktest *)

\* The replay state and the feed of the single replay.
Run == replay.A

\* A step of the loop: the bar it is on.
LoopStep == replay # NoCall /\ replay'.pos = replay.pos + 1
BarIndex == replay.indices[replay.pos]

\* C12: the replay holds at most one open trade; the strategy is asked for a
\* candidate only on a bar that starts with no trade open and closes none; a
\* trade closes on a bar after its entry bar; and every trade is entered on a
\* bar after the bar that closed the trade before it (in this feed the daily
\* candle of index n is dated n, so the dates of the records are bar indices).
C12_NonOverlapping ==
    /\ [](replay # NoCall =>
            /\ Run.open_trade # NoTrade => Run.open_trade.entry_index > Run.last_trade_idx
            /\ \A i \in DOMAIN Run.trades :
                 /\ Run.trades[i].exit_date > Run.trades[i].entry_date
                 /\ Run.trades[i].exit_date <= Run.last_trade_idx
                 /\ \A j \in DOMAIN Run.trades :
                      i < j => Run.trades[j].entry_date > Run.trades[i].exit_date)
    /\ [][LoopStep =>
            /\ replay'.offered # NoCall
                  => (Run.open_trade = NoTrade /\ replay'.A.trades = Run.trades)
            /\ replay'.A.trades # Run.trades
                  => /\ Run.open_trade # NoTrade
                     /\ replay'.A.open_trade = NoTrade
                     /\ replay'.A.trades = Append(Run.trades, replay'.A.trades[Len(Run.trades) + 1])
                     /\ replay'.A.last_trade_idx = BarIndex
                     /\ BarIndex > Run.open_trade.entry_index
            /\ (Run.open_trade # NoTrade /\ replay'.A.open_trade # NoTrade)
                  => replay'.A.open_trade.entry_index = Run.open_trade.entry_index]_vars

\* C12 witness: the replay returned two closed trades, the second entered
\* after the first was closed.
C12_Witness ==
    /\ replay # NoCall
    /\ replay.returned
    /\ Len(Run.trades) = 2
    /\ Run.trades[2].entry_date > Run.trades[1].exit_date

\* The candidate passes every test of the loop: active, entry, stop and first
\* target present, a risk distance above zero.
Opens(cand) ==
    /\ cand.status = "active"
    /\ cand.entry # None /\ cand.sl # None /\ cand.tp1 # None
    /\ Abs(cand.entry - cand.sl) > 0

\* C13: a trade is opened only from a candidate that is active, carries
\* entry, stop and first target, and has |entry - stop| > 0, and then with
\* that candidate's levels; any other candidate leaves the replay as it was
\* (no trade open, no record added) and the loop goes on to the next bar; no
\* open trade and no returned record has a risk distance of zero or less.
C13_OnlySoundCandidatesOpen ==
    /\ [](replay # NoCall =>
            /\ Run.open_trade # NoTrade
                  => (Run.open_trade.risk > 0
                      /\ Run.open_trade.risk = Abs(Run.open_trade.entry - Run.open_trade.sl))
            /\ \A i \in DOMAIN Run.trades :
                  Abs(Run.trades[i].entry - Run.trades[i].sl) > 0)
    /\ [][LoopStep =>
            /\ (Run.open_trade = NoTrade /\ replay'.A.open_trade # NoTrade)
                  => /\ replay'.offered # NoCall
                     /\ Opens(replay'.offered)
                     /\ replay'.A.open_trade =
                           NewTrade(replay'.offered.direction, replay'.offered.entry,
                                    replay'.offered.sl, replay'.offered.tp1,
                                    replay'.offered.tp2, replay'.offered.tp3,
                                    BarIndex, BarIndex)
            /\ (replay'.offered # NoCall /\ ~Opens(replay'.offered))
                  => /\ replay'.A.open_trade = NoTrade
                     /\ replay'.A.trades = Run.trades
                     /\ replay'.A.last_trade_idx = Run.last_trade_idx
            /\ (replay'.offered # NoCall /\ Opens(replay'.offered))
                  => replay'.A.open_trade # NoTrade]_vars

\* C13 witness: after a trade was closed, an active candidate whose stop is
\* its entry was offered and discarded, with bars still to come.
C13_Witness ==
    /\ replay # NoCall
    /\ replay.offered # NoCall
    /\ replay.offered.status = "active"
    /\ replay.offered.entry # None
    /\ replay.offered.entry = replay.offered.sl
    /\ Run.open_trade = NoTrade
    /\ Run.trades # <<>>
    /\ replay.pos <= Len(replay.indices)


(* Claims about the period of a replay, checked under SpecPeriod *)

\* A side of a period string reads as a date.
IsDate(text) == text.kind \in {"now", "day", "month"}

\* The period string is empty or holds no date: nothing but other text or
\* nothing on either side.
NoDates(period) ==
    /\ ~IsDate(period.left)
    /\ period.dash => ~IsDate(period.right)

\* The period string parses: a date, or two dates around a "-".
Parses(period) ==
    /\ IsDate(period.left)
    /\ period.dash => IsDate(period.right)

\* The first and the last day a date stands for.
FirstOf(text) ==
    IF text.kind = "now" THEN Today
    ELSE IF text.kind = "day" THEN text.date ELSE text.first
LastOf(text) ==
    IF text.kind = "now" THEN Today
    ELSE IF text.kind = "day" THEN text.date ELSE text.last

\* The requested interval of a period that parses, "now" standing for the
\* missing end, the two ends in order.
Requested(period) ==
    LET start == FirstOf(period.left)
        end == IF period.dash THEN LastOf(period.right) ELSE Today
    IN  IF start > end THEN <<end, start>> ELSE <<start, end>>

\* The indices replayed, as a set.
Replayed == {replay.indices[j] : j \in DOMAIN replay.indices}

\* The last 260 daily candles, or all of them when there are fewer.
Last260 == {i \in 1..Len(feed.daily) : i > Len(feed.daily) - 260}

\* C30: with a period string that is empty or holds no date run_backtest
\* replays the last 260 daily candles and no others (all of them when there
\* are fewer); with one that parses it replays the daily candles dated
\* within the closed interval from start to end, the two taken in order, and
\* no others.
C30_PeriodFallback ==
    (replay # NoCall /\ replay.pc = "loop") =>
        /\ NoDates(replay.period) => Replayed = Last260
        /\ Parses(replay.period) =>
               Replayed = {i \in 1..Len(feed.daily) :
                              /\ Requested(replay.period)[1] <= candle_to_date(feed.daily[i])
                              /\ candle_to_date(feed.daily[i]) <= Requested(replay.period)[2]}

\* What the code keeps of C30: a period with a "-" and no date on either
\* side falls back to the last 260 candles, and a period that parses and has
\* a candle within its interval replays the candles of the interval.
C30_FallbackAndInterval ==
    (replay # NoCall /\ replay.pc = "loop") =>
        LET within == {i \in 1..Len(feed.daily) :
                          /\ Requested(replay.period)[1] <= candle_to_date(feed.daily[i])
                          /\ candle_to_date(feed.daily[i]) <= Requested(replay.period)[2]}
        IN  /\ (NoDates(replay.period) /\ replay.period.dash) => Replayed = Last260
            /\ (Parses(replay.period) /\ within # {}) => Replayed = within

(* Claims about the yearly breakdown, checked under SpecYear *)

\* The days of the year before the month.
RECURSIVE DaysBefore(_, _)
DaysBefore(year, month) ==
    IF month = 1 THEN 0
    ELSE DaysBefore(year, month - 1) + monthrange(year, month - 1)

\* The daily candles of the month, from its first day to its last.
CandlesOfMonth(year, month) ==
    {i \in 1..Len(feed.daily) :
        /\ DaysBefore(year, month) < candle_to_date(feed.daily[i])
        /\ candle_to_date(feed.daily[i]) <= DaysBefore(year, month) + monthrange(year, month)}

\* The trades of the first k monthly results, one list after the other.
RECURSIVE MonthlyTrades(_, _)
MonthlyTrades(results, k) ==
    IF k = 0 THEN <<>> ELSE MonthlyTrades(results, k - 1) \o results[k].trades

\* The profit of the first k monthly results, summed.
RECURSIVE MonthlyProfit(_, _)
MonthlyProfit(results, k) ==
    IF k = 0 THEN 0 ELSE MonthlyProfit(results, k - 1) + results[k].total_profit_usd

\* C40: run_yearly_backtest runs one backtest for each of the twelve months,
\* each over the daily candles from the month's first day to its last,
\* records the monthly result of every month whose backtest succeeds (here
\* every month that has a candle), and the yearly trade list and totals are
\* the monthly ones one after the other and summed.
C40_YearlyBreakdown ==
    replay.pc = "year" =>
        LET months == {month \in 1..12 : CandlesOfMonth(replay.year, month) # {}}
        IN  /\ Len(replay.monthly_results) = Cardinality(months)
            /\ \A k \in DOMAIN replay.monthly_results :
                  LET month == CHOOSE x \in months :
                                   Cardinality({y \in months : y <= x}) = k
                  IN  {replay.monthly_results[k].indices[j] :
                          j \in DOMAIN replay.monthly_results[k].indices}
                          = CandlesOfMonth(replay.year, month)
            /\ replay.trades = MonthlyTrades(replay.monthly_results,
                                             Len(replay.monthly_results))
            /\ replay.total_trades = Len(replay.trades)
            /\ replay.total_profit_usd = MonthlyProfit(replay.monthly_results,
                                                        Len(replay.monthly_results))

\* What the code keeps of C40: the loop asks for twelve backtests and none
\* of them runs, so that the yearly result has no monthly result, no trade
\* and totals of zero, whatever the candles and the trades of the year.
C40_NoMonthRecorded ==
    /\ replay.pc = "months" =>
           /\ replay.month \in 1..13
           /\ replay.monthly_results = <<>>
           /\ replay.yearly_trades = <<>>
    /\ replay.pc = "year" =>
           /\ replay.monthly_results = <<>>
           /\ replay.trades = <<>>
           /\ replay.total_trades = 0
           /\ replay.total_profit_usd = 0
           /\ replay.net_return_pct = 0

\* Were the call to run, the period string of every month would hold no date
\* and the backtest of every month would replay the last 260 daily candles.
C40_MonthPeriodHoldsNoDate ==
    replay.pc = "months" =>
        \A month \in 1..12 :
            /\ parse_period(month_period(replay.year, month), Today) = <<None, None>>
            /\ run_backtest(feed, month_period(replay.year, month), Today).indices
                   = last_candles(feed.daily)


=========================================================================
